---- MODULE Spec2Model ----
\* A model of digibib-extract: the page lexer (text.rs, token.rs), the
\* typesetter (encoder.rs) and the structured sink (for_flutter_encoder.rs).
\*
\* Conventions
\*   Option<T>      None is <<>>, Some(x) is <<x>>.
\*   String         a sequence of Unicode scalar values (97 is 'a', 45 is '-',
\*                  32 is ' ', 10 is '\n').
\*   Vec<u8>        a sequence of numbers in 0..255.
EXTENDS Integers, Sequences, FiniteSets, TLC

VARIABLES
    \* ForFlutter (for_flutter_encoder.rs)
    plain, segments,
    \* State of encode_page (encoder.rs)
    queued_link, font_idx, word_incomplete, had_carriage_return,
    add_hyphen_at_eol, add_hyphen_at_eol_separating_ck, add_invisible_hyphen,
    file_name, concordance, node_number, sigil, current_style,
    \* position of encode_page: "run" inside the token loop, "done" once returned
    pc,
    \* the page given to encode_page: the tokens it may hold and how many
    input,
    \* history: the tokens encode_page has taken, the sink calls issued so far
    toks, calls,
    \* Page::lex (text.rs): payload, cursor, result vector, pending-unknown buffer
    data, pos, tokens, unknown_buf, lexpc,
    \* do_page (main.rs): the pages encoded so far, each with its tokens
    finished,
    \* Pages::load (text.rs): the file and the request, the cursor, what has
    \* been read of the header, the pages loaded so far, and how the call ended
    loader,
    \* Toc::ingest (toc.rs): the lines of tree.dki, the page numbers of
    \* tree.dka, and the entries built from them
    toc,
    \* State of write_page (typst.rs): the output, the wrapper stack, the
    \* position of write_page; history: the write! calls made so far
    writer, current_functions, mpc, written

sinkVars == <<plain, segments>>
hyphVars == <<add_hyphen_at_eol, add_hyphen_at_eol_separating_ck, add_invisible_hyphen>>
metaVars == <<file_name, concordance, node_number, sigil>>
stateVars == <<queued_link, font_idx, word_incomplete, had_carriage_return,
               hyphVars, metaVars, current_style>>
lexVars == <<data, pos, tokens, unknown_buf, lexpc>>
driverVars == <<finished, loader, toc>>
markupVars == <<writer, current_functions, mpc, written>>
vars == <<sinkVars, stateVars, pc, input, toks, calls, lexVars, driverVars, markupVars>>

None == <<>>
Some(x) == <<x>>

Last(s) == s[Len(s)]
Front(s) == SubSeq(s, 1, Len(s) - 1)

RECURSIVE Concat(_)
Concat(ss) == IF ss = <<>> THEN <<>> ELSE Head(ss) \o Concat(Tail(ss))

\* ------------------------------------------------------------------
\* Styles
\* ------------------------------------------------------------------

DefaultStyle ==
    [left_padding |-> None, emphasis |-> FALSE, strong |-> FALSE,
     superscript |-> FALSE, subscript |-> FALSE, strikethrough |-> FALSE,
     underline |-> FALSE, wide_spacing |-> FALSE, size |-> None,
     color_gray |-> FALSE, no_justification |-> FALSE, alignment |-> None]

DefaultSegmentStyle ==
    [left_padding |-> None, no_justification |-> FALSE, alignment |-> None]

split_style(s) ==
    <<[emphasis |-> s.emphasis, strong |-> s.strong,
       superscript |-> s.superscript, subscript |-> s.subscript,
       strikethrough |-> s.strikethrough, underline |-> s.underline,
       wide_spacing |-> s.wide_spacing, size |-> s.size,
       colour_gray |-> s.color_gray],
      [left_padding |-> s.left_padding,
       no_justification |-> s.no_justification,
       alignment |-> s.alignment]>>

ChunkStyleOf(s) == split_style(s)[1]
SegmentStyleOf(s) == split_style(s)[2]

\* SegmentStyle::to_proto: the alignment a segment is rendered with. The
\* padding is kept in hundredths (the division by 100.0 is left to the reader
\* of the value).
SegmentStyle_to_proto_JustifyFirst(ss) ==
    [left_padding |-> IF ss.left_padding = None THEN 0 ELSE ss.left_padding[1],
     alignment |->
        IF ss.no_justification THEN "Unjustified"
        ELSE IF ss.alignment = Some("center") THEN "Center"
        ELSE IF ss.alignment = Some("right") THEN "Right"
        ELSE "Justified"]

SegmentStyle_to_proto(ss) ==
    [left_padding |-> IF ss.left_padding = None THEN 0 ELSE ss.left_padding[1],
     alignment |->
        IF ss.alignment = Some("center") THEN "Center"
        ELSE IF ss.alignment = Some("right") THEN "Right"
        ELSE IF ss.no_justification THEN "Unjustified"
        ELSE "Justified"]

\* ------------------------------------------------------------------
\* Structured sink (ForFlutter)
\* ------------------------------------------------------------------

ChunkPiece(style, text) == [kind |-> "Chunk", style |-> style, text |-> text]
LinkPiece(url, content) == [kind |-> "Link", url |-> url, content |-> content]
PageRefPiece(n) == [kind |-> "PageRef", page |-> n]
SearchWordPiece(s) == [kind |-> "SearchWord", word |-> s]

Segment_new == [style |-> DefaultSegmentStyle, pieces |-> <<>>]
Segment_new_with_piece(style, piece) == [style |-> style, pieces |-> <<piece>>]

Segment_push_piece_NoMerge(seg, piece) ==
    [seg EXCEPT !.pieces = Append(@, piece)]

Segment_push_piece_Overwrite(seg, piece) ==
    IF /\ piece.kind = "Chunk"
       /\ seg.pieces # <<>>
       /\ Last(seg.pieces).kind = "Chunk"
       /\ Last(seg.pieces).style = piece.style
    THEN [seg EXCEPT !.pieces[Len(seg.pieces)].text = piece.text]
    ELSE [seg EXCEPT !.pieces = Append(@, piece)]

Segment_push_piece(seg, piece) ==
    IF /\ piece.kind = "Chunk"
       /\ seg.pieces # <<>>
       /\ Last(seg.pieces).kind = "Chunk"
       /\ Last(seg.pieces).style = piece.style
    THEN [seg EXCEPT !.pieces[Len(seg.pieces)].text = @ \o piece.text]
    ELSE [seg EXCEPT !.pieces = Append(@, piece)]

ForFlutter_new_NoSegment == [plain |-> <<>>, segments |-> <<>>]

ForFlutter_new == [plain |-> <<>>, segments |-> <<Segment_new>>]

push_piece_samestyle_NewSegment(segs, piece) ==
    Append(segs, Segment_new_with_piece(DefaultSegmentStyle, piece))

push_piece_samestyle(segs, piece) ==
    [segs EXCEPT ![Len(segs)] = Segment_push_piece(@, piece)]

push_piece_AlwaysLast(segs, style, piece) ==
    [segs EXCEPT ![Len(segs)] = Segment_push_piece(@, piece)]

push_piece(segs, style, piece) ==
    IF Last(segs).style = style
    THEN [segs EXCEPT ![Len(segs)] = Segment_push_piece(@, piece)]
    ELSE Append(segs, Segment_new_with_piece(style, piece))

\* The four operations of the Encoder trait, on a sink value e.
chunk(e, s, style) ==
    [plain |-> e.plain \o s,
     segments |-> push_piece(e.segments, SegmentStyleOf(style),
                             ChunkPiece(ChunkStyleOf(style), s))]

link(e, url, content) ==
    [e EXCEPT !.segments = push_piece_samestyle(@, LinkPiece(url, content))]

pageref(e, page) ==
    [e EXCEPT !.segments = push_piece_samestyle(@, PageRefPiece(page))]

searchword(e, s) ==
    [e EXCEPT !.segments = push_piece_samestyle(@, SearchWordPiece(s))]

\* A sink call as a value, and its effect on the sink.
ChunkCall(s, style) == [op |-> "chunk", text |-> s, style |-> style]
LinkCall(url, content) == [op |-> "link", url |-> url, content |-> content]
PageRefCall(page) == [op |-> "pageref", page |-> page]
SearchWordCall(s) == [op |-> "searchword", word |-> s]

Dispatch(e, c) ==
    CASE c.op = "chunk" -> chunk(e, c.text, c.style)
      [] c.op = "link" -> link(e, c.url, c.content)
      [] c.op = "pageref" -> pageref(e, c.page)
      [] c.op = "searchword" -> searchword(e, c.word)

RECURSIVE Feed(_, _)
Feed(e, cs) == IF cs = <<>> THEN e ELSE Feed(Dispatch(e, Head(cs)), Tail(cs))

Sink == [plain |-> plain, segments |-> segments]

\* ------------------------------------------------------------------
\* Initial values
\* ------------------------------------------------------------------

\* ForFlutter::new
InitSink ==
    /\ plain = ForFlutter_new.plain
    /\ segments = ForFlutter_new.segments

\* State::new
InitState ==
    /\ queued_link = None
    /\ font_idx = 0
    /\ word_incomplete = FALSE
    /\ had_carriage_return = FALSE
    /\ add_hyphen_at_eol = FALSE
    /\ add_hyphen_at_eol_separating_ck = FALSE
    /\ add_invisible_hyphen = FALSE
    /\ file_name = None
    /\ concordance = None
    /\ node_number = None
    /\ sigil = None
    /\ current_style = DefaultStyle

InitHistory ==
    /\ toks = <<>>
    /\ calls = <<>>

\* No page is being typeset.
NoInput == [limit |-> 0, alphabet |-> {}]

NoLoader == [pc |-> "idle", file |-> <<>>, page_number |-> 1, count |-> 0,
             has_magic |-> FALSE, page_table |-> <<>>, i |-> 1, pages |-> <<>>]
NoToc == [pc |-> "idle", lines |-> <<>>, page_numbers |-> <<>>, entries |-> <<>>]

\* No page has been encoded.
InitDriverIdle ==
    /\ finished = <<>>
    /\ loader = NoLoader
    /\ toc = NoToc

\* No page is being written as markup.
InitMarkupIdle ==
    /\ writer = <<>>
    /\ current_functions = <<>>
    /\ mpc = "idle"
    /\ written = <<>>

\* No page is being lexed.
InitLexIdle ==
    /\ data = <<>>
    /\ pos = 0
    /\ tokens = <<>>
    /\ unknown_buf = <<>>
    /\ lexpc = "idle"

\* ------------------------------------------------------------------
\* The structured sink driven directly through the Encoder trait
\* ------------------------------------------------------------------

MaxCalls == 3

\* 'a' and the empty string
SinkTexts == {<<>>, <<97>>}
SinkStyles ==
    {[DefaultStyle EXCEPT !.emphasis = e, !.no_justification = nj, !.alignment = al] :
        e \in BOOLEAN, nj \in BOOLEAN, al \in {None, Some("center"), Some("right")}}
SinkPages == {7}

SinkChunk ==
    \E s \in SinkTexts, style \in SinkStyles :
        /\ Len(calls) < MaxCalls
        /\ plain' = chunk(Sink, s, style).plain
        /\ segments' = chunk(Sink, s, style).segments
        /\ calls' = Append(calls, ChunkCall(s, style))
        /\ UNCHANGED <<stateVars, pc, input, toks, lexVars, driverVars, markupVars>>

SinkLink ==
    \E url \in {<<117>>}, content \in SinkTexts :
        /\ Len(calls) < MaxCalls
        /\ plain' = link(Sink, url, content).plain
        /\ segments' = link(Sink, url, content).segments
        /\ calls' = Append(calls, LinkCall(url, content))
        /\ UNCHANGED <<stateVars, pc, input, toks, lexVars, driverVars, markupVars>>

SinkPageRef ==
    \E page \in SinkPages :
        /\ Len(calls) < MaxCalls
        /\ plain' = pageref(Sink, page).plain
        /\ segments' = pageref(Sink, page).segments
        /\ calls' = Append(calls, PageRefCall(page))
        /\ UNCHANGED <<stateVars, pc, input, toks, lexVars, driverVars, markupVars>>

SinkSearchWord ==
    \E s \in {<<97>>} :
        /\ Len(calls) < MaxCalls
        /\ plain' = searchword(Sink, s).plain
        /\ segments' = searchword(Sink, s).segments
        /\ calls' = Append(calls, SearchWordCall(s))
        /\ UNCHANGED <<stateVars, pc, input, toks, lexVars, driverVars, markupVars>>

InitSinkOnly ==
    /\ InitSink /\ InitState /\ InitHistory /\ InitLexIdle /\ InitDriverIdle
    /\ InitMarkupIdle
    /\ pc = "idle"
    /\ input = NoInput

NextSink == SinkChunk \/ SinkLink \/ SinkPageRef \/ SinkSearchWord

SpecSink == InitSinkOnly /\ [][NextSink]_vars

\* ------------------------------------------------------------------
\* Text
\* ------------------------------------------------------------------

\* char::is_whitespace (the White_Space property), as used by str::trim_end
IsWhitespace(c) ==
    c \in (9..13) \cup {32, 133, 160, 5760, 8232, 8233, 8239, 8287, 12288}
            \cup (8192..8202)

\* char::is_alphanumeric, for ASCII, Latin-1 and the Greek letters
IsAlphanumeric(c) ==
    c \in (48..57) \cup (65..90) \cup (97..122) \cup {170, 178, 179, 181, 185, 186}
            \cup (188..190) \cup (192..214) \cup (216..246) \cup (248..255)
            \cup (913..929) \cup (931..969)

RECURSIVE trim_end(_)
trim_end(s) ==
    IF s # <<>> /\ IsWhitespace(Last(s)) THEN trim_end(Front(s)) ELSE s

trim_end_matches_Once(s, c) ==
    IF s # <<>> /\ Last(s) = c THEN Front(s) ELSE s

RECURSIVE trim_end_matches(_, _)
trim_end_matches(s, c) ==
    IF s # <<>> /\ Last(s) = c THEN trim_end_matches(Front(s), c) ELSE s

\* encoding_rs::WINDOWS_1252.decode, one byte: the bytes 0x80..0x9F have
\* their own code points, every other byte is its own code point.
Windows1252(b) ==
    CASE b = 128 -> 8364 [] b = 130 -> 8218 [] b = 131 -> 402  [] b = 132 -> 8222
      [] b = 133 -> 8230 [] b = 134 -> 8224 [] b = 135 -> 8225 [] b = 136 -> 710
      [] b = 137 -> 8240 [] b = 138 -> 352  [] b = 139 -> 8249 [] b = 140 -> 338
      [] b = 142 -> 381  [] b = 145 -> 8216 [] b = 146 -> 8217 [] b = 147 -> 8220
      [] b = 148 -> 8221 [] b = 149 -> 8226 [] b = 150 -> 8211 [] b = 151 -> 8212
      [] b = 152 -> 732  [] b = 153 -> 8482 [] b = 154 -> 353  [] b = 155 -> 8250
      [] b = 156 -> 339  [] b = 158 -> 382  [] b = 159 -> 376
      [] OTHER -> b

\* decoding::decode_string: font 0 is the legacy code page; another font
\* selects a glyph table (here one that holds the Greek small letters at the
\* Latin ones), and a byte the table lacks is its own code point.
decode_string(bytes, font) ==
    [i \in 1..Len(bytes) |->
        IF font = 0 THEN Windows1252(bytes[i])
        ELSE IF bytes[i] \in 97..121 THEN bytes[i] + 848
        ELSE bytes[i]]

\* ------------------------------------------------------------------
\* Typesetter (encode_page)
\* ------------------------------------------------------------------

\* Tokens, as the lexer delivers them.
Tok(kind) == [kind |-> kind]
TokN(kind, n) == [kind |-> kind, n |-> n]
TokName(kind, name) == [kind |-> kind, name |-> name]
WordTok(sae, bytes) == [kind |-> "Word", space_at_end |-> sae, data |-> bytes]
WordRestTok(sae, text) == [kind |-> "WordRest", space_at_end |-> sae, data |-> text]
PageLinkTok(page, name) == [kind |-> "PageLink", page_number |-> page, name |-> name]

Of(kind) == {t \in input.alphabet : t.kind = kind}

hyphen_EolOnly == add_hyphen_at_eol

\* State::hyphen
hyphen == add_hyphen_at_eol \/ add_hyphen_at_eol_separating_ck \/ add_invisible_hyphen

\* State::reset_hyphens
reset_hyphens ==
    /\ add_hyphen_at_eol' = FALSE
    /\ add_hyphen_at_eol_separating_ck' = FALSE
    /\ add_invisible_hyphen' = FALSE

\* impl Write for State: write_str on the pair (queued_link, sink). issued
\* collects the sink calls made.
Writer == [queued_link |-> queued_link, encoder |-> Sink, issued |-> <<>>]

write_str_Both(w, s) ==
    IF w.queued_link # None
    THEN [w EXCEPT !.queued_link[1].content = @ \o s,
                   !.encoder = chunk(@, s, current_style),
                   !.issued = Append(@, ChunkCall(s, current_style))]
    ELSE [w EXCEPT !.encoder = chunk(@, s, current_style),
                   !.issued = Append(@, ChunkCall(s, current_style))]

write_str(w, s) ==
    IF w.queued_link # None
    THEN [w EXCEPT !.queued_link[1].content = @ \o s]
    ELSE [w EXCEPT !.encoder = chunk(@, s, current_style),
                   !.issued = Append(@, ChunkCall(s, current_style))]

RECURSIVE write_all(_, _)
write_all(w, ss) ==
    IF ss = <<>> THEN w ELSE write_all(write_str(w, Head(ss)), Tail(ss))

\* The loop takes the next token of the page.
Take(t) ==
    /\ pc = "run"
    /\ Len(toks) < input.limit
    /\ toks' = Append(toks, t)
    /\ UNCHANGED <<input, lexVars, driverVars, markupVars>>

\* The arm writes the strings ss, in order.
Writes(ss) ==
    LET w == write_all(Writer, ss)
    IN  /\ queued_link' = w.queued_link
        /\ plain' = w.encoder.plain
        /\ segments' = w.encoder.segments
        /\ calls' = calls \o w.issued

\* The arm calls the sink directly.
Calls(c) ==
    /\ plain' = Dispatch(Sink, c).plain
    /\ segments' = Dispatch(Sink, c).segments
    /\ calls' = Append(calls, c)

Silent == UNCHANGED <<sinkVars, calls>>

Space == <<32>>
Newline == <<10>>
RECURSIVE Repeat(_, _)
Repeat(x, n) == IF n = 0 THEN <<>> ELSE <<x>> \o Repeat(x, n - 1)

Blanks ==
    \E t \in Of("Blanks") :
        /\ Take(t)
        /\ Writes(Repeat(Space, t.n))
        /\ UNCHANGED <<font_idx, word_incomplete, had_carriage_return, hyphVars,
                       metaVars, current_style, pc>>

\* The text of a Word: right-trimmed, and without its trailing dashes unless a
\* hyphen flag is set.
WordText(bytes, font, hyph) ==
    IF ~hyph
    THEN trim_end_matches(trim_end(decode_string(bytes, font)), 45)
    ELSE trim_end(decode_string(bytes, font))

WordWrites_NoSkip(t, s, incomplete) ==
    (IF s = <<>> THEN <<>> ELSE <<s>>)
    \o (IF t.space_at_end \/ (s # <<>> /\ ~IsAlphanumeric(Last(s)))
        THEN <<Space>> ELSE <<>>)

WordWrites_SpaceOnlyFlag(t, s, incomplete) ==
    (IF incomplete \/ s = <<>> THEN <<>> ELSE <<s>>)
    \o (IF t.space_at_end THEN <<Space>> ELSE <<>>)

\* What a Word writes: its text unless suppressed or empty, then a space
\* when space_at_end or when the text ends in a non-alphanumeric character.
WordWrites(t, s, incomplete) ==
    (IF incomplete \/ s = <<>> THEN <<>> ELSE <<s>>)
    \o (IF t.space_at_end \/ (s # <<>> /\ ~IsAlphanumeric(Last(s)))
        THEN <<Space>> ELSE <<>>)

Word ==
    \E t \in Of("Word") :
        /\ Take(t)
        /\ Writes(WordWrites(t, WordText(t.data, font_idx, hyphen), word_incomplete))
        /\ word_incomplete' = FALSE
        /\ reset_hyphens
        /\ UNCHANGED <<font_idx, had_carriage_return, metaVars, current_style, pc>>

HardCarriageReturn ==
    \E t \in Of("HardCarriageReturn") :
        /\ Take(t)
        /\ had_carriage_return' = TRUE
        /\ Writes(<<Newline \o Newline>>)
        /\ UNCHANGED <<font_idx, word_incomplete, hyphVars, metaVars,
                       current_style, pc>>

EndOfPage_GoesOn ==
    \E t \in Of("EndOfPage") :
        /\ Take(t)
        /\ pc' = "run"
        /\ Silent
        /\ UNCHANGED stateVars

\* break: the loop is left, and encode_page returns Ok.
EndOfPage ==
    \E t \in Of("EndOfPage") :
        /\ Take(t)
        /\ pc' = "done"
        /\ Silent
        /\ UNCHANGED stateVars

\* The token list is exhausted: the loop ends and encode_page returns Ok.
EndOfTokens ==
    /\ pc = "run"
    /\ pc' = "done"
    /\ Silent
    /\ UNCHANGED <<stateVars, input, toks, lexVars, driverVars, markupVars>>

\* An arm that only changes current_style.
Restyle(kind, style) ==
    \E t \in Of(kind) :
        /\ Take(t)
        /\ current_style' = style
        /\ Silent
        /\ UNCHANGED <<queued_link, font_idx, word_incomplete, had_carriage_return,
                       hyphVars, metaVars, pc>>

ItalicsOn == Restyle("ItalicsOn", [current_style EXCEPT !.emphasis = TRUE])
ItalicsOff == Restyle("ItalicsOff", [current_style EXCEPT !.emphasis = FALSE])
BoldOn == Restyle("BoldOn", [current_style EXCEPT !.strong = TRUE])
BoldOff == Restyle("BoldOff", [current_style EXCEPT !.strong = FALSE])
SuperScriptOn == Restyle("SuperScriptOn", [current_style EXCEPT !.superscript = TRUE])
SuperScriptOff == Restyle("SuperScriptOff", [current_style EXCEPT !.superscript = FALSE])
UnderlineOn == Restyle("UnderlineOn", [current_style EXCEPT !.underline = TRUE])
UnderlineOff == Restyle("UnderlineOff", [current_style EXCEPT !.underline = FALSE])
SubscriptOn == Restyle("SubscriptOn", [current_style EXCEPT !.subscript = TRUE])
SubscriptOff == Restyle("SubscriptOff", [current_style EXCEPT !.subscript = FALSE])
LetterSpacingOn == Restyle("LetterSpacingOn", [current_style EXCEPT !.wide_spacing = TRUE])
LetterSpacingOff == Restyle("LetterSpacingOff", [current_style EXCEPT !.wide_spacing = FALSE])
StrikeThroughOn == Restyle("StrikeThroughOn", [current_style EXCEPT !.strikethrough = TRUE])
StrikeThroughOff == Restyle("StrikeThroughOff", [current_style EXCEPT !.strikethrough = FALSE])
NoJustifyOn == Restyle("NoJustifyOn", [current_style EXCEPT !.no_justification = TRUE])
NoJustifyOff == Restyle("NoJustifyOff", [current_style EXCEPT !.no_justification = FALSE])
CenteredOn == Restyle("CenteredOn", [current_style EXCEPT !.alignment = Some("center")])
CenteredOff == Restyle("CenteredOff", [current_style EXCEPT !.alignment = None])
AlignRightOn == Restyle("AlignRightOn", [current_style EXCEPT !.alignment = Some("right")])
AlignRightOff == Restyle("AlignRightOff", [current_style EXCEPT !.alignment = None])

FontPresetStyle_ZeroClearsSize(style, n) ==
    CASE n = 0 -> [style EXCEPT !.color_gray = FALSE, !.emphasis = FALSE,
                                !.strong = FALSE, !.size = None]
      [] n = 1 -> [style EXCEPT !.size = Some(133)]
      [] n = 2 -> [style EXCEPT !.size = Some(122)]
      [] n = 3 -> [style EXCEPT !.size = Some(111)]
      [] n = 4 -> [style EXCEPT !.size = None, !.strong = TRUE]
      [] n = 5 -> [style EXCEPT !.size = None]
      [] n = 6 -> [style EXCEPT !.size = None, !.emphasis = TRUE]
      [] OTHER -> style

\* The match on n in the FontPreset arm.
FontPresetStyle(style, n) ==
    CASE n = 0 -> [style EXCEPT !.color_gray = FALSE, !.emphasis = FALSE, !.strong = FALSE]
      [] n = 1 -> [style EXCEPT !.size = Some(133)]
      [] n = 2 -> [style EXCEPT !.size = Some(122)]
      [] n = 3 -> [style EXCEPT !.size = Some(111)]
      [] n = 4 -> [style EXCEPT !.size = None, !.strong = TRUE]
      [] n = 5 -> [style EXCEPT !.size = None]
      [] n = 6 -> [style EXCEPT !.size = None, !.emphasis = TRUE]
      [] OTHER -> style

FontPreset ==
    \E t \in Of("FontPreset") :
        /\ Take(t)
        /\ current_style' = FontPresetStyle(current_style, t.n)
        /\ Silent
        /\ UNCHANGED <<queued_link, font_idx, word_incomplete, had_carriage_return,
                       hyphVars, metaVars, pc>>

Color ==
    \E t \in Of("Color") :
        /\ Take(t)
        /\ current_style' = [current_style EXCEPT !.color_gray = (t.n = 1)]
        /\ Silent
        /\ UNCHANGED <<queued_link, font_idx, word_incomplete, had_carriage_return,
                       hyphVars, metaVars, pc>>

\* NonZeroU8::new(0).unwrap() aborts the program.
FontSize ==
    \E t \in Of("FontSize") :
        /\ Take(t)
        /\ IF t.n = 0
           THEN pc' = "panic" /\ UNCHANGED current_style
           ELSE current_style' = [current_style EXCEPT !.size = Some(t.n)]
                /\ UNCHANGED pc
        /\ Silent
        /\ UNCHANGED <<queued_link, font_idx, word_incomplete, had_carriage_return,
                       hyphVars, metaVars>>

\* NonZeroU16::new(0) is None.
SetX ==
    \E t \in Of("SetX") :
        /\ Take(t)
        /\ current_style' =
             [current_style EXCEPT !.left_padding = IF t.n = 0 THEN None ELSE Some(t.n)]
        /\ Silent
        /\ UNCHANGED <<queued_link, font_idx, word_incomplete, had_carriage_return,
                       hyphVars, metaVars, pc>>

Font ==
    \E t \in Of("Font") :
        /\ Take(t)
        /\ font_idx' = t.n
        /\ Silent
        /\ UNCHANGED <<queued_link, word_incomplete, had_carriage_return, hyphVars,
                       metaVars, current_style, pc>>

FileName ==
    \E t \in Of("FileName") :
        /\ Take(t)
        /\ file_name' = Some(t.name)
        /\ Silent
        /\ UNCHANGED <<queued_link, font_idx, word_incomplete, had_carriage_return,
                       hyphVars, concordance, node_number, sigil, current_style, pc>>

Concordance ==
    \E t \in Of("Concordance") :
        /\ Take(t)
        /\ concordance' = Some(t.n)
        /\ Silent
        /\ UNCHANGED <<queued_link, font_idx, word_incomplete, had_carriage_return,
                       hyphVars, file_name, node_number, sigil, current_style, pc>>

NodeNumber ==
    \E t \in Of("NodeNumber") :
        /\ Take(t)
        /\ node_number' = Some(t.n)
        /\ Silent
        /\ UNCHANGED <<queued_link, font_idx, word_incomplete, had_carriage_return,
                       hyphVars, file_name, concordance, sigil, current_style, pc>>

Sigil ==
    \E t \in Of("Sigil") :
        /\ Take(t)
        /\ sigil' = Some(t.name)
        /\ Silent
        /\ UNCHANGED <<queued_link, font_idx, word_incomplete, had_carriage_return,
                       hyphVars, file_name, concordance, node_number, current_style, pc>>

\* Both HypenAtEol and InvisibleHyphen set add_invisible_hyphen.
HypenAtEol ==
    \E t \in Of("HypenAtEol") :
        /\ Take(t)
        /\ add_invisible_hyphen' = TRUE
        /\ Silent
        /\ UNCHANGED <<queued_link, font_idx, word_incomplete, had_carriage_return,
                       add_hyphen_at_eol, add_hyphen_at_eol_separating_ck,
                       metaVars, current_style, pc>>

InvisibleHyphen ==
    \E t \in Of("InvisibleHyphen") :
        /\ Take(t)
        /\ add_invisible_hyphen' = TRUE
        /\ Silent
        /\ UNCHANGED <<queued_link, font_idx, word_incomplete, had_carriage_return,
                       add_hyphen_at_eol, add_hyphen_at_eol_separating_ck,
                       metaVars, current_style, pc>>

HyphenCK ==
    \E t \in Of("HyphenCK") :
        /\ Take(t)
        /\ add_hyphen_at_eol_separating_ck' = TRUE
        /\ Silent
        /\ UNCHANGED <<queued_link, font_idx, word_incomplete, had_carriage_return,
                       add_hyphen_at_eol, add_invisible_hyphen,
                       metaVars, current_style, pc>>

OneBlank ==
    \E t \in Of("OneBlank") :
        /\ Take(t)
        /\ Writes(<<Space>>)
        /\ UNCHANGED <<font_idx, word_incomplete, had_carriage_return, hyphVars,
                       metaVars, current_style, pc>>

SoftCarriageReturn ==
    \E t \in Of("SoftCarriageReturn") :
        /\ Take(t)
        /\ Writes(IF ~hyphen THEN <<Space>> ELSE <<>>)
        /\ UNCHANGED <<font_idx, word_incomplete, had_carriage_return, hyphVars,
                       metaVars, current_style, pc>>

HalfLineSpacing ==
    \E t \in Of("HalfLineSpacing") :
        /\ Take(t)
        /\ Writes(<<Newline>>)
        /\ UNCHANGED <<font_idx, word_incomplete, had_carriage_return, hyphVars,
                       metaVars, current_style, pc>>

\* pageref goes to the sink at once, also while a link is queued.
PageLink ==
    \E t \in Of("PageLink") :
        /\ Take(t)
        /\ IF t.page_number # 0 THEN Calls(PageRefCall(t.page_number)) ELSE Silent
        /\ UNCHANGED <<stateVars, pc>>

AutoLink ==
    \E t \in Of("AutoLink") :
        /\ Take(t)
        /\ Calls(PageRefCall(t.n))
        /\ UNCHANGED <<stateVars, pc>>

\* panic!("actuall saw a list item")
ListItemStart ==
    \E t \in Of("ListItemStart") :
        /\ Take(t)
        /\ pc' = "panic"
        /\ Silent
        /\ UNCHANGED stateVars

\* queued_link is the pair (content, url): write_str appends to its first
\* component, UrlEnd passes the second as the url.
UrlBegin ==
    \E t \in Of("UrlBegin") :
        /\ Take(t)
        /\ queued_link' = Some([content |-> <<>>, url |-> t.name])
        /\ Silent
        /\ UNCHANGED <<font_idx, word_incomplete, had_carriage_return, hyphVars,
                       metaVars, current_style, pc>>

UrlEndCall_Swapped(q) == LinkCall(q.content, q.url)

UrlEndCall(q) == LinkCall(q.url, q.content)

UrlEnd ==
    \E t \in Of("UrlEnd") :
        /\ Take(t)
        /\ IF queued_link # None
           THEN Calls(UrlEndCall(queued_link[1]))
           ELSE Silent
        /\ queued_link' = None
        /\ UNCHANGED <<font_idx, word_incomplete, had_carriage_return, hyphVars,
                       metaVars, current_style, pc>>

WordRest ==
    \E t \in Of("WordRest") :
        /\ Take(t)
        /\ Writes(<<t.data>> \o (IF t.space_at_end THEN <<Space>> ELSE <<>>))
        /\ UNCHANGED <<font_idx, word_incomplete, had_carriage_return, hyphVars,
                       metaVars, current_style, pc>>

WordIncomplete ==
    \E t \in Of("WordIncomplete") :
        /\ Take(t)
        /\ Writes(<<t.name>>)
        /\ word_incomplete' = TRUE
        /\ UNCHANGED <<font_idx, had_carriage_return, hyphVars, metaVars,
                       current_style, pc>>

\* The arms with an empty body.
IgnoredKinds ==
    {"Ly", "Image", "ImageLink", "EndLink", "Header", "GreekOn", "GreekOff",
     "VerticalLineOn", "VerticalLineOff", "TD", "Null", "IDStart", "IDEnd",
     "InlineImage", "SearchWord", "Copyright", "ListItemEnd",
     "UnorderedListStart", "UnorderedListEnd", "SV", "SVLemmaBegin",
     "SVLemmaStop", "EOn", "EOff", "BibIndex", "NotFirstLine", "Thumb",
     "EndNew", "WordAnchor", "ThumbWWW", "S", "NextBlankFixed", "HebrewOn",
     "HebrewOff", "NodeNumber2", "SetY", "Cor", "EndCor", "DashedLine", "Unknown"}

Ignored ==
    \E t \in {x \in input.alphabet : x.kind \in IgnoredKinds} :
        /\ Take(t)
        /\ Silent
        /\ UNCHANGED <<stateVars, pc>>

\* encode_page starts: State::new over a fresh sink.
InitPage ==
    /\ InitSink /\ InitState /\ InitHistory /\ InitLexIdle /\ InitDriverIdle
    /\ InitMarkupIdle
    /\ pc = "run"

\* ------------------------------------------------------------------
\* Pages of words and hyphenation hints
\* ------------------------------------------------------------------

MaxWordTokens == 3

\* "", "a", "a-", "a--", "a " in the legacy code page
WordDatas == {<<>>, <<97>>, <<97, 45>>, <<97, 45, 45>>, <<97, 32>>}

WordAlphabet ==
    {WordTok(sae, d) : sae \in BOOLEAN, d \in WordDatas}
    \cup {Tok("HypenAtEol"), Tok("InvisibleHyphen"), Tok("HyphenCK"),
          Tok("SoftCarriageReturn"), TokName("WordIncomplete", <<97>>),
          Tok("EndOfPage")}

InitWord ==
    /\ InitPage
    /\ input = [limit |-> MaxWordTokens, alphabet |-> WordAlphabet]

NextWord ==
    \/ Word
    \/ HypenAtEol
    \/ InvisibleHyphen
    \/ HyphenCK
    \/ SoftCarriageReturn
    \/ WordIncomplete
    \/ EndOfPage
    \/ EndOfTokens

SpecWord == InitWord /\ [][NextWord]_vars

\* ------------------------------------------------------------------
\* Pages of alignment toggles
\* ------------------------------------------------------------------

MaxAlignTokens == 5

AlignAlphabet ==
    {Tok("CenteredOn"), Tok("CenteredOff"), Tok("AlignRightOn"),
     Tok("AlignRightOff"), Tok("NoJustifyOn"), Tok("NoJustifyOff"),
     Tok("OneBlank")}

InitAlign ==
    /\ InitPage
    /\ input = [limit |-> MaxAlignTokens, alphabet |-> AlignAlphabet]

NextAlign ==
    \/ CenteredOn
    \/ CenteredOff
    \/ AlignRightOn
    \/ AlignRightOff
    \/ NoJustifyOn
    \/ NoJustifyOff
    \/ OneBlank
    \/ EndOfTokens

SpecAlign == InitAlign /\ [][NextAlign]_vars

\* ------------------------------------------------------------------
\* Pages with links
\* ------------------------------------------------------------------

MaxLinkTokens == 4

\* the urls "u" and "v", the page 7
LinkAlphabet ==
    {TokName("UrlBegin", <<117>>), TokName("UrlBegin", <<118>>), Tok("UrlEnd"),
     WordTok(FALSE, <<97>>), WordTok(TRUE, <<97, 45>>), Tok("HypenAtEol"),
     TokName("WordIncomplete", <<97>>), TokN("AutoLink", 7),
     PageLinkTok(0, <<97>>), Tok("EndOfPage")}

InitLink ==
    /\ InitPage
    /\ input = [limit |-> MaxLinkTokens, alphabet |-> LinkAlphabet]

NextLink ==
    \/ UrlBegin
    \/ UrlEnd
    \/ Word
    \/ HypenAtEol
    \/ WordIncomplete
    \/ AutoLink
    \/ PageLink
    \/ EndOfPage
    \/ EndOfTokens

SpecLink == InitLink /\ [][NextLink]_vars

\* ------------------------------------------------------------------
\* Pages of style presets, sizes and list items
\* ------------------------------------------------------------------

MaxStyleTokens == 3

\* every preset with an arm and one without (7), the tokens that set what the
\* presets clear, both kinds of size, a list item, a token with an empty arm
StyleAlphabet ==
    {TokN("FontPreset", n) : n \in 0..7}
    \cup {TokN("Color", 1), Tok("ItalicsOn"), Tok("BoldOn"), TokN("FontSize", 0),
          TokN("FontSize", 50), Tok("ListItemStart"), Tok("Null"), Tok("OneBlank"),
          Tok("EndOfPage")}

InitStyle ==
    /\ InitPage
    /\ input = [limit |-> MaxStyleTokens, alphabet |-> StyleAlphabet]

NextStyle ==
    \/ FontPreset
    \/ Color
    \/ ItalicsOn
    \/ BoldOn
    \/ FontSize
    \/ ListItemStart
    \/ Ignored
    \/ OneBlank
    \/ EndOfPage
    \/ EndOfTokens

SpecStyle == InitStyle /\ [][NextStyle]_vars

\* ------------------------------------------------------------------
\* Pages of texts that may be empty
\* ------------------------------------------------------------------

MaxTextTokens == 3

\* WordRest, WordIncomplete and Word with an empty and a one-letter text,
\* no blanks and two blanks, and two tokens that change the style of the
\* segment and of the chunk
TextAlphabet ==
    {WordRestTok(sae, d) : sae \in BOOLEAN, d \in {<<>>, <<97>>}}
    \cup {TokName("WordIncomplete", <<>>), TokName("WordIncomplete", <<97>>),
          TokN("Blanks", 0), TokN("Blanks", 2), WordTok(FALSE, <<>>),
          WordTok(FALSE, <<97>>), Tok("CenteredOn"), Tok("ItalicsOn"),
          Tok("EndOfPage")}

InitText ==
    /\ InitPage
    /\ input = [limit |-> MaxTextTokens, alphabet |-> TextAlphabet]

NextText ==
    \/ WordRest
    \/ WordIncomplete
    \/ Blanks
    \/ Word
    \/ CenteredOn
    \/ ItalicsOn
    \/ EndOfPage
    \/ EndOfTokens

SpecText == InitText /\ [][NextText]_vars

\* ------------------------------------------------------------------
\* The driver: do_page encodes the pages of an entry one after the other
\* ------------------------------------------------------------------

State_new_KeepStyle ==
    [queued_link |-> None, font_idx |-> 0, word_incomplete |-> FALSE,
     had_carriage_return |-> FALSE, add_hyphen_at_eol |-> FALSE,
     add_hyphen_at_eol_separating_ck |-> FALSE, add_invisible_hyphen |-> FALSE,
     file_name |-> None, concordance |-> None, node_number |-> None,
     sigil |-> None, current_style |-> current_style]

\* State::new
State_new ==
    [queued_link |-> None, font_idx |-> 0, word_incomplete |-> FALSE,
     had_carriage_return |-> FALSE, add_hyphen_at_eol |-> FALSE,
     add_hyphen_at_eol_separating_ck |-> FALSE, add_invisible_hyphen |-> FALSE,
     file_name |-> None, concordance |-> None, node_number |-> None,
     sigil |-> None, current_style |-> DefaultStyle]

\* encode_page starts on the state st and the sink e.
StartsOn(st, e) ==
    /\ queued_link' = st.queued_link
    /\ font_idx' = st.font_idx
    /\ word_incomplete' = st.word_incomplete
    /\ had_carriage_return' = st.had_carriage_return
    /\ add_hyphen_at_eol' = st.add_hyphen_at_eol
    /\ add_hyphen_at_eol_separating_ck' = st.add_hyphen_at_eol_separating_ck
    /\ add_invisible_hyphen' = st.add_invisible_hyphen
    /\ file_name' = st.file_name
    /\ concordance' = st.concordance
    /\ node_number' = st.node_number
    /\ sigil' = st.sigil
    /\ current_style' = st.current_style
    /\ plain' = e.plain
    /\ segments' = e.segments

MaxPages == 3
MaxPageTokens == 2

\* The row do_page inserts for a page: its plain text and its segments as
\* they are rendered. tokens is the part of the page encode_page has read.
PageRow ==
    [tokens |-> toks, plain |-> plain,
     content |-> [i \in 1..Len(segments) |->
                    [style |-> SegmentStyle_to_proto(segments[i].style),
                     pieces |-> segments[i].pieces]]]

\* encode_page has returned Ok: the page is inserted, and the loop goes on
\* to the next page with a new sink, if there is a next page.
NextPage ==
    /\ pc = "done"
    /\ Len(finished) < MaxPages
    /\ finished' = Append(finished, PageRow)
    /\ StartsOn(State_new, ForFlutter_new)
    /\ toks' = <<>>
    /\ calls' = <<>>
    /\ pc' = IF Len(finished') < MaxPages THEN "run" ELSE "end"
    /\ UNCHANGED <<input, lexVars, markupVars, loader, toc>>

\* tokens that leave something behind in the state (alignment, a pending
\* hyphen, a pending incomplete word, an open link) and a word that shows it
PagesAlphabet ==
    {Tok("CenteredOn"), Tok("HypenAtEol"), TokName("WordIncomplete", <<97>>),
     TokName("UrlBegin", <<117>>), WordTok(FALSE, <<97, 45>>), Tok("EndOfPage")}

InitPages ==
    /\ InitPage
    /\ input = [limit |-> MaxPageTokens, alphabet |-> PagesAlphabet]

NextPages ==
    \/ CenteredOn
    \/ HypenAtEol
    \/ WordIncomplete
    \/ UrlBegin
    \/ Word
    \/ EndOfPage
    \/ EndOfTokens
    \/ NextPage

SpecPages == InitPages /\ [][NextPages]_vars

\* ------------------------------------------------------------------
\* Markup sink (typst.rs): write_page and its wrapper stack
\* ------------------------------------------------------------------

\* The markup state the wrapper operations work on.
Markup == [writer |-> writer, written |-> written, current_functions |-> current_functions]

\* write!(state, ...): one more piece of output.
Typst_write(m, s) == [m EXCEPT !.writer = @ \o s, !.written = Append(@, s)]

RECURSIVE Typst_write_all(_, _)
Typst_write_all(m, ss) ==
    IF ss = <<>> THEN m ELSE Typst_write_all(Typst_write(m, Head(ss)), Tail(ss))

\* "#val[" and "]"
OpenWrapper(val) == <<35>> \o val \o <<91>>
CloseWrapper == <<93>>

\* The position of the first entry of cf with the key, 0 when there is none.
IndexOfKey(cf, key) ==
    LET S == {i \in 1..Len(cf) : cf[i].key = key}
    IN  IF S = {} THEN 0 ELSE CHOOSE i \in S : \A j \in S : i <= j

RemoveAt(q, i) == SubSeq(q, 1, i - 1) \o SubSeq(q, i + 1, Len(q))

Typst_pop_state_NoReopen(m, key) ==
    LET cf == m.current_functions
        i == IndexOfKey(cf, key)
    IN  IF i = 0 THEN m
        ELSE [Typst_write_all(m, Repeat(CloseWrapper, (Len(cf) - i) + 1))
                EXCEPT !.current_functions = RemoveAt(cf, i)]

Typst_pop_state(m, key) ==
    LET cf == m.current_functions
        i == IndexOfKey(cf, key)
        after_this == Len(cf) - i
        closed == Typst_write_all(m, Repeat(CloseWrapper, after_this + 1))
        reopened == Typst_write_all(closed,
                        [k \in 1..after_this |-> OpenWrapper(cf[i + k].val)])
    IN  IF i = 0 THEN m
        ELSE [reopened EXCEPT !.current_functions = RemoveAt(cf, i)]

\* The variant that pushes without removing an entry of the same key.
Typst_push_state_NoPop(m, key, val) ==
    Typst_write([m EXCEPT !.current_functions =
                              Append(@, [key |-> key, val |-> val])],
                OpenWrapper(val))

Typst_push_state(m, key, val) ==
    LET popped == Typst_pop_state(m, key)
    IN  Typst_write([popped EXCEPT !.current_functions =
                                      Append(@, [key |-> key, val |-> val])],
                    OpenWrapper(val))

Typst_pop_all_states_KeepStack(m) ==
    Typst_write_all(m, Repeat(CloseWrapper, Len(m.current_functions)))

Typst_pop_all_states(m) ==
    [Typst_write_all(m, Repeat(CloseWrapper, Len(m.current_functions)))
        EXCEPT !.current_functions = <<>>]

\* ESCAPER.replace_all(s, "\\$0"): a backslash before each of
\* # ( ) [ ] * = _ ` < > / $
Typst_ESCAPER == {35, 40, 41, 91, 93, 42, 61, 95, 96, 60, 62, 47, 36}
RECURSIVE Typst_escape(_)
Typst_escape(t) ==
    IF t = <<>> THEN <<>>
    ELSE (IF Head(t) \in Typst_ESCAPER THEN <<92, Head(t)>> ELSE <<Head(t)>>)
         \o Typst_escape(Tail(t))

\* A number as its decimal digits.
RECURSIVE Decimal(_)
Decimal(n) == IF n < 10 THEN <<48 + n>> ELSE Decimal(n \div 10) \o <<48 + (n % 10)>>

\* The heading line write_page starts with:
\* #align(center)[#heading(level: L, numbering: "1.a.")[title] <pageN>]
Typst_heading(level, title, page_number) ==
    <<35, 97, 108, 105, 103, 110, 40, 99, 101, 110, 116, 101, 114, 41, 91, 35, 104, 101, 97, 100, 105, 110, 103, 40, 108, 101, 118, 101, 108, 58, 32>> \o Decimal(level)
    \o <<44, 32, 110, 117, 109, 98, 101, 114, 105, 110, 103, 58, 32, 34, 49, 46, 97, 46, 34, 41, 91>> \o Typst_escape(title)
    \o <<93, 32, 60, 112, 97, 103, 101>> \o Decimal(page_number) \o <<93, 10>>

\* "\n#pagebreak(weak: true)\n"
Typst_pagebreak == <<10, 35, 112, 97, 103, 101, 98, 114, 101, 97, 107, 40, 119, 101, 97, 107, 58, 32, 116, 114, 117, 101, 41, 10>>

\* The values of the wrappers
Typst_emph == <<101, 109, 112, 104>>
Typst_strong == <<115, 116, 114, 111, 110, 103>>
\* text(size: 1.33em), 1.22em, 1.11em, 1em
Typst_size(n) ==
    CASE n = 1 -> <<116, 101, 120, 116, 40, 115, 105, 122, 101, 58, 32, 49, 46, 51, 51, 101, 109, 41>>
      [] n = 2 -> <<116, 101, 120, 116, 40, 115, 105, 122, 101, 58, 32, 49, 46, 50, 50, 101, 109, 41>>
      [] n = 3 -> <<116, 101, 120, 116, 40, 115, 105, 122, 101, 58, 32, 49, 46, 49, 49, 101, 109, 41>>
      [] OTHER -> <<116, 101, 120, 116, 40, 115, 105, 122, 101, 58, 32, 49, 101, 109, 41>>
\* link("url")
Typst_link(url) == <<108, 105, 110, 107, 40, 34>> \o url \o <<34, 41>>

\* The loop of write_page takes the next token of the page.
Typst_Take(t) ==
    /\ mpc = "run"
    /\ Len(toks) < input.limit
    /\ toks' = Append(toks, t)
    /\ UNCHANGED <<sinkVars, stateVars, pc, input, calls, lexVars, driverVars>>

Typst_Goes(m) ==
    /\ writer' = m.writer
    /\ written' = m.written
    /\ current_functions' = m.current_functions

\* An arm that opens a wrapper, and one that closes it.
Typst_Push(kind, key, val) ==
    \E t \in Of(kind) :
        /\ Typst_Take(t)
        /\ Typst_Goes(Typst_push_state(Markup, key, val))
        /\ mpc' = mpc

Typst_Pop(kind, key) ==
    \E t \in Of(kind) :
        /\ Typst_Take(t)
        /\ Typst_Goes(Typst_pop_state(Markup, key))
        /\ mpc' = mpc

Typst_ItalicsOn == Typst_Push("ItalicsOn", "emph", Typst_emph)
Typst_ItalicsOff == Typst_Pop("ItalicsOff", "emph")
Typst_BoldOn == Typst_Push("BoldOn", "strong", Typst_strong)
Typst_BoldOff == Typst_Pop("BoldOff", "strong")

Typst_FontPresetGoes(m, n) ==
    CASE n = 0 -> Typst_pop_state(Typst_pop_state(Typst_pop_state(m, "color"), "strong"),
                                  "italic")
      [] n \in {1, 2, 3, 5} -> Typst_push_state(m, "size", Typst_size(n))
      [] n = 4 -> Typst_push_state(Typst_push_state(m, "size", Typst_size(n)),
                                   "strong", Typst_strong)
      [] n = 6 -> Typst_push_state(Typst_push_state(m, "size", Typst_size(n)),
                                   "emph", Typst_emph)
      [] OTHER -> m

Typst_FontPreset ==
    \E t \in Of("FontPreset") :
        /\ Typst_Take(t)
        /\ Typst_Goes(Typst_FontPresetGoes(Markup, t.n))
        /\ mpc' = mpc

\* "text(fill: gray)"
Typst_gray == <<116, 101, 120, 116, 40, 102, 105, 108, 108, 58, 32, 103, 114, 97, 121, 41>>

Typst_Color ==
    \E t \in Of("Color") :
        /\ Typst_Take(t)
        /\ Typst_Goes(IF t.n = 1 THEN Typst_push_state(Markup, "colour", Typst_gray)
                      ELSE Typst_pop_state(Markup, "colour"))
        /\ mpc' = mpc

Typst_UrlBegin ==
    \E t \in Of("UrlBegin") :
        /\ Typst_Take(t)
        /\ Typst_Goes(Typst_push_state(Markup, "link", Typst_link(t.name)))
        /\ mpc' = mpc

Typst_UrlEnd == Typst_Pop("UrlEnd", "link")

Typst_OneBlank ==
    \E t \in Of("OneBlank") :
        /\ Typst_Take(t)
        /\ Typst_Goes(Typst_write(Markup, Space))
        /\ mpc' = mpc

\* After the loop: the open wrappers are closed and the page break written.
Typst_finish(m) == Typst_write(Typst_pop_all_states(m), Typst_pagebreak)

\* EndOfPage breaks out of the loop.
Typst_EndOfPage ==
    \E t \in Of("EndOfPage") :
        /\ Typst_Take(t)
        /\ Typst_Goes(Typst_finish(Markup))
        /\ mpc' = "done"

\* The token list is exhausted.
Typst_EndOfTokens ==
    /\ mpc = "run"
    /\ Typst_Goes(Typst_finish(Markup))
    /\ mpc' = "done"
    /\ UNCHANGED <<sinkVars, stateVars, pc, input, toks, calls, lexVars, driverVars>>

\* The entry write_page is called for: level 1, title "a", page 1
TocLevel == 1
TocTitle == <<97>>
TocPage == 1

\* write_page starts: State::new(output), then the heading line.
InitMarkup ==
    /\ InitSink /\ InitState /\ InitHistory /\ InitLexIdle /\ InitDriverIdle
    /\ pc = "idle"
    /\ writer = Typst_heading(TocLevel, TocTitle, TocPage)
    /\ written = <<Typst_heading(TocLevel, TocTitle, TocPage)>>
    /\ current_functions = <<>>
    /\ mpc = "run"

MaxMarkupTokens == 4

\* the urls "u" and "]"
MarkupAlphabet ==
    {Tok("ItalicsOn"), Tok("ItalicsOff"), Tok("BoldOn"), Tok("BoldOff"),
     TokN("FontPreset", 1), TokN("FontPreset", 4), TokN("FontPreset", 0),
     TokName("UrlBegin", <<117>>), TokName("UrlBegin", <<93>>), Tok("UrlEnd"),
     Tok("OneBlank"), Tok("EndOfPage")}

InitMarkupPage ==
    /\ InitMarkup
    /\ input = [limit |-> MaxMarkupTokens, alphabet |-> MarkupAlphabet]

NextMarkup ==
    \/ Typst_ItalicsOn
    \/ Typst_ItalicsOff
    \/ Typst_BoldOn
    \/ Typst_BoldOff
    \/ Typst_FontPreset
    \/ Typst_UrlBegin
    \/ Typst_UrlEnd
    \/ Typst_OneBlank
    \/ Typst_EndOfPage
    \/ Typst_EndOfTokens

SpecMarkup == InitMarkupPage /\ [][NextMarkup]_vars

\* ------------------------------------------------------------------
\* Pages of inline style toggles, written as markup
\* ------------------------------------------------------------------

MaxInlineTokens == 4

\* the toggles of emphasis, strong and gray, the presets that clear them (0)
\* and set them (4, 6)
InlineAlphabet ==
    {Tok("ItalicsOn"), Tok("ItalicsOff"), Tok("BoldOn"), Tok("BoldOff"),
     TokN("Color", 1), TokN("Color", 0), TokN("FontPreset", 0),
     TokN("FontPreset", 4), TokN("FontPreset", 6), Tok("OneBlank"),
     Tok("EndOfPage")}

InitInline ==
    /\ InitMarkup
    /\ input = [limit |-> MaxInlineTokens, alphabet |-> InlineAlphabet]

NextInline ==
    \/ Typst_ItalicsOn
    \/ Typst_ItalicsOff
    \/ Typst_BoldOn
    \/ Typst_BoldOff
    \/ Typst_Color
    \/ Typst_FontPreset
    \/ Typst_OneBlank
    \/ Typst_EndOfPage
    \/ Typst_EndOfTokens

SpecInline == InitInline /\ [][NextInline]_vars

\* ------------------------------------------------------------------
\* Lexer (Page::lex over the opcode table of token.rs)
\* ------------------------------------------------------------------

OpNoOperand ==
    {2, 3, 4, 5, 6, 7, 9, 12, 17, 18, 20, 21, 22, 23, 24, 25, 27, 28, 29, 30, 31,
     131, 132, 139, 140, 141, 142, 143, 144, 145, 146, 147, 151, 152, 153, 154,
     155, 156, 157, 159, 160, 163, 164, 165, 166, 167, 168, 169, 172, 173, 174,
     176, 177, 180, 236}
OpU8 == {0, 8, 13, 129, 130, 133, 136, 137}
OpU16 == {15, 16, 148, 178}
OpU32 == {138, 158, 175, 179}
OpU64 == {149}
OpName == {11, 14, 19, 135, 150, 162, 171}
OpImage == 10
OpPageLink == 128
OpInlineImage == 134
OpEndNew == 161
OpWord == 1
OpWordRest == 170
OpUnknown == 255

Opcodes ==
    OpNoOperand \cup OpU8 \cup OpU16 \cup OpU32 \cup OpU64 \cup OpName
    \cup {OpImage, OpPageLink, OpInlineImage, OpEndNew, OpWord, OpWordRest, OpUnknown}

OpKind(op) ==
    CASE op = 0 -> "Blanks" [] op = 1 -> "Word" [] op = 2 -> "HardCarriageReturn"
      [] op = 3 -> "EndOfPage" [] op = 4 -> "ItalicsOn" [] op = 5 -> "ItalicsOff"
      [] op = 6 -> "BoldOn" [] op = 7 -> "BoldOff" [] op = 8 -> "FontPreset"
      [] op = 9 -> "Ly" [] op = 10 -> "Image" [] op = 11 -> "ImageLink"
      [] op = 12 -> "EndLink" [] op = 13 -> "Font" [] op = 14 -> "FileName"
      [] op = 15 -> "Concordance" [] op = 16 -> "NodeNumber"
      [] op = 17 -> "SuperScriptOn" [] op = 18 -> "SuperScriptOff"
      [] op = 19 -> "Sigil" [] op = 20 -> "Header" [] op = 21 -> "HypenAtEol"
      [] op = 22 -> "UnderlineOn" [] op = 23 -> "UnderlineOff"
      [] op = 24 -> "GreekOn" [] op = 25 -> "GreekOff" [] op = 27 -> "OneBlank"
      [] op = 28 -> "VerticalLineOn" [] op = 29 -> "VerticalLineOff"
      [] op = 30 -> "TD" [] op = 31 -> "Null" [] op = 128 -> "PageLink"
      [] op = 129 -> "IDStart" [] op = 130 -> "IDEnd" [] op = 131 -> "SubscriptOn"
      [] op = 132 -> "SubscriptOff" [] op = 133 -> "Color"
      [] op = 134 -> "InlineImage" [] op = 135 -> "SearchWord"
      [] op = 136 -> "FontSize" [] op = 137 -> "Copyright" [] op = 138 -> "AutoLink"
      [] op = 139 -> "SoftCarriageReturn" [] op = 140 -> "InvisibleHyphen"
      [] op = 141 -> "LetterSpacingOn" [] op = 142 -> "LetterSpacingOff"
      [] op = 143 -> "HalfLineSpacing" [] op = 144 -> "ListItemStart"
      [] op = 145 -> "ListItemEnd" [] op = 146 -> "UnorderedListStart"
      [] op = 147 -> "UnorderedListEnd" [] op = 148 -> "SetX" [] op = 149 -> "SV"
      [] op = 150 -> "SVLemmaBegin" [] op = 151 -> "SVLemmaStop"
      [] op = 152 -> "CenteredOn" [] op = 153 -> "CenteredOff"
      [] op = 154 -> "AlignRightOn" [] op = 155 -> "AlignRightOff"
      [] op = 156 -> "EOn" [] op = 157 -> "EOff" [] op = 158 -> "BibIndex"
      [] op = 159 -> "NotFirstLine" [] op = 160 -> "Thumb" [] op = 161 -> "EndNew"
      [] op = 162 -> "UrlBegin" [] op = 163 -> "UrlEnd" [] op = 164 -> "WordAnchor"
      [] op = 165 -> "ThumbWWW" [] op = 166 -> "S" [] op = 167 -> "NoJustifyOn"
      [] op = 168 -> "NoJustifyOff" [] op = 169 -> "NextBlankFixed"
      [] op = 170 -> "WordRest" [] op = 171 -> "WordIncomplete"
      [] op = 172 -> "HyphenCK" [] op = 173 -> "HebrewOn" [] op = 174 -> "HebrewOff"
      [] op = 175 -> "NodeNumber2" [] op = 176 -> "StrikeThroughOn"
      [] op = 177 -> "StrikeThroughOff" [] op = 178 -> "SetY" [] op = 179 -> "Cor"
      [] op = 180 -> "EndCor" [] op = 236 -> "DashedLine" [] op = 255 -> "Unknown"

\* The widths of the integer operands of an opcode, in order.
OperandWidths(op) ==
    CASE op \in OpU8 -> <<1>>
      [] op \in OpU16 -> <<2>>
      [] op \in OpU32 \cup {OpImage, OpPageLink} -> <<4>>
      [] op \in OpU64 -> <<8>>
      [] op = OpInlineImage -> <<2, 2>>
      [] OTHER -> <<>>

HasName(op) == op \in OpName \cup {OpImage, OpPageLink, OpInlineImage}

RECURSIVE Sum(_)
Sum(ws) == IF ws = <<>> THEN 0 ELSE Head(ws) + Sum(Tail(ws))

RECURSIVE LittleEndian(_)
LittleEndian(bs) == IF bs = <<>> THEN 0 ELSE Head(bs) + 256 * LittleEndian(Tail(bs))

\* The k bytes of d at offset p (the first byte of d is at offset 0).
BytesAt(d, p, k) == SubSeq(d, p + 1, p + k)

\* The integer operands of op read at offset q.
RECURSIVE Operands(_, _, _)
Operands(d, q, ws) ==
    IF ws = <<>> THEN <<>>
    ELSE <<LittleEndian(BytesAt(d, q, Head(ws)))>> \o Operands(d, q + Head(ws), Tail(ws))

Windows1252String(bs) == [i \in 1..Len(bs) |-> Windows1252(bs[i])]

\* String::from_utf8_lossy, for one- and two-byte encodings: every byte that
\* starts no such encoding becomes U+FFFD.
RECURSIVE from_utf8_lossy(_)
from_utf8_lossy(bs) ==
    IF bs = <<>> THEN <<>>
    ELSE IF bs[1] < 128 THEN <<bs[1]>> \o from_utf8_lossy(Tail(bs))
    ELSE IF bs[1] \in 194..223 /\ Len(bs) >= 2 /\ bs[2] \in 128..191
         THEN <<(bs[1] - 192) * 64 + (bs[2] - 128)>> \o from_utf8_lossy(Tail(Tail(bs)))
    ELSE <<65533>> \o from_utf8_lossy(Tail(bs))

UnknownTok(raw, decoded) == [kind |-> "Unknown", raw |-> raw, decoded |-> decoded]

\* The token of opcode op with integer operands v, name or data bytes bs
\* and length byte len.
MakeToken(op, v, bs, len) ==
    CASE op \in OpNoOperand -> Tok(OpKind(op))
      [] op \in OpU8 \cup OpU16 \cup OpU32 \cup OpU64 -> TokN(OpKind(op), v[1])
      [] op \in OpName -> TokName(OpKind(op), Windows1252String(bs))
      [] op = OpImage -> [kind |-> "Image", width |-> v[1], name |-> Windows1252String(bs)]
      [] op = OpPageLink -> PageLinkTok(v[1], Windows1252String(bs))
      [] op = OpInlineImage ->
           [kind |-> "InlineImage", width |-> v[1], height |-> v[2],
            name |-> Windows1252String(bs)]
      [] op = OpEndNew -> [kind |-> "EndNew", bytes |-> bs]
      [] op = OpWord -> WordTok(len >= 128, bs)
      [] op = OpWordRest -> WordRestTok(len >= 128, Windows1252String(bs))
      [] op = OpUnknown -> UnknownTok(<<>>, <<>>)

\* How many bytes follow the length byte len of opcode op.
CountOf(op, len) == IF op = OpWord THEN len % 128 ELSE len

\* Token::read at offset p of d. "eof": no byte is left; "badmagic": the
\* byte is no opcode; "truncated": the payload ends inside the operands;
\* "ok": the token tok, the cursor then at next. The cursor is back at p
\* after every failure.
ReadToken(d, p) ==
    IF p >= Len(d) THEN [status |-> "eof"]
    ELSE LET op == d[p + 1]
             fixed == IF op = OpEndNew THEN 3 ELSE Sum(OperandWidths(op))
             q == p + 1 + fixed
             counted == HasName(op) \/ op \in {OpWord, OpWordRest}
         IN  IF op \notin Opcodes THEN [status |-> "badmagic"]
             ELSE IF q > Len(d) THEN [status |-> "truncated"]
             ELSE IF ~counted
                  THEN [status |-> "ok",
                        tok |-> MakeToken(op, Operands(d, p + 1, OperandWidths(op)),
                                          BytesAt(d, p + 1, fixed), 0),
                        next |-> q]
             ELSE IF q >= Len(d) THEN [status |-> "truncated"]
             ELSE IF q + 1 + CountOf(op, d[q + 1]) > Len(d) THEN [status |-> "truncated"]
             ELSE [status |-> "ok",
                   tok |-> MakeToken(op, Operands(d, p + 1, OperandWidths(op)),
                                     BytesAt(d, q + 1, CountOf(op, d[q + 1])), d[q + 1]),
                   next |-> q + 1 + CountOf(op, d[q + 1])]

\* Error::is_eof for the failure of Token::read. Every variant fails on the
\* missing magic at the end of the payload, and none fails so on a byte that
\* is no opcode. When the payload ends inside the operands of one variant
\* the other variants fail on the magic, and which answer the library gives
\* for that mix is not fixed here: both are possible.
IsEof_NeverEof(status) ==
    CASE status = "ok" -> {}
      [] OTHER -> {FALSE}

IsEof(status) ==
    CASE status = "eof" -> {TRUE}
      [] status = "badmagic" -> {FALSE}
      [] status = "truncated" -> {TRUE, FALSE}
      [] OTHER -> {}

\* The tokens pushed for Ok(t): the pending unknown bytes as one Unknown
\* token when there are any, then t.
FlushThen(buf, t) ==
    (IF buf # <<>> THEN <<UnknownTok(buf, from_utf8_lossy(buf))>> ELSE <<>>) \o <<t>>

\* One turn of the loop of Page::lex on the lexer state
\* l = [pos, tokens, unknown_buf, pc]: the states it can lead to. The
\* Err(_) arm unwraps the read of one byte, which panics when none is left.
LexTurn(d, l) ==
    LET r == ReadToken(d, l.pos)
    IN  IF r.status = "ok"
        THEN {[pos |-> r.next, tokens |-> l.tokens \o FlushThen(l.unknown_buf, r.tok),
               unknown_buf |-> <<>>, pc |-> "run"]}
        ELSE {IF eof THEN [l EXCEPT !.pc = "done"]
              ELSE IF l.pos >= Len(d) THEN [l EXCEPT !.pc = "panic"]
              ELSE [l EXCEPT !.pos = @ + 1,
                             !.unknown_buf = Append(@, d[l.pos + 1])] :
                eof \in IsEof(r.status)}

\* Every token vector lex can return for the payload d.
RECURSIVE LexFrom(_, _)
LexFrom(d, l) ==
    IF l.pc = "done" THEN {l.tokens}
    ELSE IF l.pc = "panic" THEN {}
    ELSE UNION {LexFrom(d, m) : m \in LexTurn(d, l)}

LexStart == [pos |-> 0, tokens |-> <<>>, unknown_buf |-> <<>>, pc |-> "run"]
lex(d) == LexFrom(d, LexStart)

Lexer == [pos |-> pos, tokens |-> tokens, unknown_buf |-> unknown_buf, pc |-> lexpc]

LexGoes(m) ==
    /\ lexpc = "run"
    /\ m \in LexTurn(data, Lexer)
    /\ pos' = m.pos
    /\ tokens' = m.tokens
    /\ unknown_buf' = m.unknown_buf
    /\ lexpc' = m.pc
    /\ UNCHANGED <<data, sinkVars, stateVars, pc, input, toks, calls, driverVars, markupVars>>

\* Ok(t): the pending unknown bytes become one Unknown token, then t.
LexToken ==
    /\ ReadToken(data, pos).status = "ok"
    /\ \E m \in LexTurn(data, Lexer) : LexGoes(m)

\* Err(e) if e.is_eof(): lex returns the tokens.
LexReturn ==
    /\ ReadToken(data, pos).status # "ok"
    /\ \E m \in LexTurn(data, Lexer) : m.pc = "done" /\ LexGoes(m)

\* Err(_): the byte under the cursor goes to the pending-unknown buffer.
LexUnknown ==
    /\ ReadToken(data, pos).status # "ok"
    /\ \E m \in LexTurn(data, Lexer) : m.pc \in {"run", "panic"} /\ LexGoes(m)

MaxPayload == 4

\* Blanks, Word, EndOfPage, a byte that is no opcode (0x1A), IDStart (also
\* the length byte of a one-byte word with space_at_end), WordRest, and the
\* magic of Token::Unknown
LexBytes == {0, 1, 3, 26, 129, 170, 255}

RECURSIVE SeqsUpTo(_, _)
SeqsUpTo(S, n) ==
    IF n = 0 THEN {<<>>}
    ELSE SeqsUpTo(S, n - 1)
         \cup {Append(s, x) : s \in {t \in SeqsUpTo(S, n - 1) : Len(t) = n - 1}, x \in S}

InitLex ==
    /\ InitSink /\ InitState /\ InitHistory /\ InitDriverIdle /\ InitMarkupIdle
    /\ pc = "idle"
    /\ input = NoInput
    /\ data \in SeqsUpTo(LexBytes, MaxPayload)
    /\ pos = LexStart.pos
    /\ tokens = LexStart.tokens
    /\ unknown_buf = LexStart.unknown_buf
    /\ lexpc = LexStart.pc

NextLex == LexToken \/ LexReturn \/ LexUnknown

SpecLex == InitLex /\ [][NextLex]_vars

\* The loop of Page::lex has no exit but its return: it keeps taking turns.
SpecLexRuns == InitLex /\ [][NextLex]_vars /\ WF_vars(NextLex)

\* ------------------------------------------------------------------
\* Pages::load and Pages::load_page (text.rs)
\* ------------------------------------------------------------------

\* 0x1924cc
Magic == 1647820

\* read_le of an unsigned integer of k bytes at cursor position p: its value
\* and the cursor after it, or an error when fewer than k bytes are left (a
\* cursor past the end reads nothing).
ReadLe(file, p, k) ==
    IF p + k > Len(file) THEN [ok |-> FALSE, value |-> 0, pos |-> p]
    ELSE [ok |-> TRUE, value |-> LittleEndian(BytesAt(file, p, k)), pos |-> p + k]

\* The i32 at position p, which is known to be there: two's complement.
ReadI32(file, p) ==
    LET bs == BytesAt(file, p, 4)
    IN  LittleEndian(<<bs[1], bs[2], bs[3], IF bs[4] >= 128 THEN bs[4] - 256 ELSE bs[4]>>)

\* DkaBlock: a u32 mapped to len = x + 1, then len i32 entries.
DkaBlock(file, p) ==
    LET x == ReadLe(file, p, 4)
        len == x.value + 1
    IN  IF ~x.ok \/ x.pos + 4 * len > Len(file)
        THEN [ok |-> FALSE, block |-> <<>>]
        ELSE [ok |-> TRUE,
              block |-> [k \in 1..len |-> ReadI32(file, x.pos + 4 * (k - 1))]]

\* The head of Pages::load, up to the page table: whether the file starts
\* with the magic number (then a version follows), and the table.
Pages_open(file) ==
    LET magic == ReadLe(file, 0, 4)
    IN  IF ~magic.ok THEN [ok |-> FALSE, has_magic |-> FALSE, page_table |-> <<>>]
        ELSE IF magic.value = Magic
        THEN LET version == ReadLe(file, magic.pos, 4)
                 table == DkaBlock(file, version.pos)
             IN  IF ~version.ok \/ ~table.ok
                 THEN [ok |-> FALSE, has_magic |-> TRUE, page_table |-> <<>>]
                 ELSE [ok |-> TRUE, has_magic |-> TRUE, page_table |-> table.block]
        ELSE LET table == DkaBlock(file, 0)
             IN  IF ~table.ok
                 THEN [ok |-> FALSE, has_magic |-> FALSE, page_table |-> <<>>]
                 ELSE [ok |-> TRUE, has_magic |-> FALSE, page_table |-> table.block]

\* seek(SeekFrom::Start(address as u64)) on the cursor: it always succeeds.
\* A negative address is cast to a position of 2^63 or more, which is past
\* the end of every file.
SeekStart(file, address) == IF address < 0 THEN Len(file) + 1 ELSE address

Page(number, atom_count, word_count, payload) ==
    [number |-> number, atom_count |-> atom_count, word_count |-> word_count,
     data |-> payload]

Loaded(page) == [status |-> "ok", page |-> page]
LoadError == [status |-> "err", page |-> Page(0, 0, 0, <<>>)]
LoadPanic == [status |-> "panic", page |-> Page(0, 0, 0, <<>>)]

\* The Vec<u8> of page_size bytes at p, made into the page.
ReadPayload(file, p, page_size, number, atom_count, word_count) ==
    IF p + page_size > Len(file) THEN LoadError
    ELSE Loaded(Page(number, atom_count, word_count, BytesAt(file, p, page_size)))

\* Pages::load_page: the outcomes of loading page page_number. Indexing the
\* table with page_number - 1 panics when the index is not in the table
\* (for page_number 0 the subtraction overflows, or wraps to an index that
\* is not in the table). Without the magic number page_size - 2 is a u16
\* subtraction: below 2 it panics where overflow is checked and wraps where
\* it is not.
load_page(file, page_table, page_number, has_magic) ==
    IF page_number < 1 \/ page_number > Len(page_table) THEN {LoadPanic}
    ELSE LET address == page_table[page_number]
             page_size == ReadLe(file, SeekStart(file, address), 2)
             atom_count == ReadLe(file, page_size.pos, 2)
             word_count == ReadLe(file, atom_count.pos, 2)
         IN  IF ~page_size.ok THEN {LoadError}
             ELSE IF has_magic
             THEN IF ~atom_count.ok \/ ~word_count.ok THEN {LoadError}
                  ELSE {ReadPayload(file, word_count.pos, page_size.value,
                                    page_number, atom_count.value, word_count.value)}
             ELSE IF page_size.value < 2
             THEN {LoadPanic,
                   ReadPayload(file, page_size.pos, page_size.value + 65536 - 2,
                               page_number, 0, 0)}
             ELSE {ReadPayload(file, page_size.pos, page_size.value - 2,
                               page_number, 0, 0)}

LoadGoes(l) ==
    /\ loader' = l
    /\ UNCHANGED <<sinkVars, stateVars, pc, input, toks, calls, lexVars,
                   finished, toc, markupVars>>

\* Pages::load reads the header and the page table.
LoadOpen ==
    /\ loader.pc = "open"
    /\ LET h == Pages_open(loader.file)
       IN  IF h.ok
           THEN LoadGoes([loader EXCEPT !.pc = "pages", !.has_magic = h.has_magic,
                                        !.page_table = h.page_table,
                                        !.i = loader.page_number])
           ELSE LoadGoes([loader EXCEPT !.pc = "err"])

\* One turn of the map over page_number..page_number + count. collect stops
\* at the first error and keeps no page.
LoadPage ==
    /\ loader.pc = "pages"
    /\ loader.i < loader.page_number + loader.count
    /\ \E out \in load_page(loader.file, loader.page_table, loader.i, loader.has_magic) :
          IF out.status = "ok"
          THEN LoadGoes([loader EXCEPT !.pages = Append(@, out.page), !.i = @ + 1])
          ELSE LoadGoes([loader EXCEPT !.pc = out.status, !.pages = <<>>])

\* The range is exhausted: Ok(Pages { start, pages }).
LoadReturn ==
    /\ loader.pc = "pages"
    /\ loader.i = loader.page_number + loader.count
    /\ LoadGoes([loader EXCEPT !.pc = "ok"])

MaxTable == 2
MaxRecords == 2
MaxCount == 2

\* n in k bytes, least significant first
Le(n, k) == [j \in 1..k |-> (n \div (256 ^ (j - 1))) % 256]

\* an address of the table in four bytes; -1 is the negative address
AddressBytes(a) == IF a < 0 THEN <<255, 255, 255, 255>> ELSE Le(a, 4)

\* Page records: with the magic number page_size counts the payload, without
\* it page_size counts its own two bytes too. <<0, 0>> and <<1, 0>> are
\* sizes below 2.
Records(has_magic) ==
    IF has_magic THEN {<<0, 0, 1, 0, 2, 0>>, <<1, 0, 1, 0, 2, 0, 7>>}
    ELSE {<<2, 0>>, <<3, 0, 7>>, <<0, 0>>}

HeaderLen(has_magic, n) == (IF has_magic THEN 8 ELSE 0) + 4 + 4 * n

\* Where the records of a body start, counted from the start of the body,
\* and the end of the body.
RECURSIVE Starts(_, _)
Starts(recs, at) ==
    IF recs = <<>> THEN {at} ELSE {at} \cup Starts(Tail(recs), at + Len(Head(recs)))

\* The files: a header, a table of n addresses (starts of records, the end
\* of the file, a negative address), the records; whole or cut short.
Files ==
    UNION {
      UNION {
        UNION {
          LET h == HeaderLen(has_magic, n)
              whole == (IF has_magic THEN Le(Magic, 4) \o Le(1, 4) ELSE <<>>)
                       \o Le(n - 1, 4)
                       \o Concat([k \in 1..n |->
                                    AddressBytes(IF table[k] < 0 THEN -1 ELSE h + table[k])])
                       \o Concat(recs)
          IN  {SubSeq(whole, 1, m) :
                 m \in {Len(whole), Len(whole) - 1, Len(whole) - 2, 3, 6} \cap 0..Len(whole)}
          : table \in [1..n -> Starts(recs, 0) \cup {-1}]}
        : n \in 1..MaxTable, recs \in SeqsUpTo(Records(has_magic), MaxRecords)}
      : has_magic \in BOOLEAN}

InitLoad ==
    /\ InitSink /\ InitState /\ InitHistory /\ InitLexIdle /\ InitMarkupIdle
    /\ pc = "idle"
    /\ input = NoInput
    /\ finished = <<>>
    /\ toc = NoToc
    /\ \E file \in Files, page_number \in 0..(MaxTable + 1), count \in 0..MaxCount :
          loader = [pc |-> "open", file |-> file, page_number |-> page_number,
                    count |-> count, has_magic |-> FALSE, page_table |-> <<>>,
                    i |-> page_number, pages |-> <<>>]

NextLoad == LoadOpen \/ LoadPage \/ LoadReturn

SpecLoad == InitLoad /\ [][NextLoad]_vars

\* ------------------------------------------------------------------
\* Toc::ingest (toc.rs)
\* ------------------------------------------------------------------

\* str::len: the length of a String in bytes, one for each code point and
\* one more for each byte char::len_utf8 adds to it
str_len(s) ==
    Len(s) + Cardinality({i \in 1..Len(s) : s[i] >= 128})
           + Cardinality({i \in 1..Len(s) : s[i] >= 2048})

\* str::trim_start: the string without its leading whitespace
trim_start(s) ==
    LET leading == {i \in 1..Len(s) : \A j \in 1..i : IsWhitespace(s[j])}
    IN  SubSeq(s, Cardinality(leading) + 1, Len(s))

\* The closure of Toc::ingest: entry i (from 0) of the lines. The level is
\* a usize cast to u8; page_numbers has an element for every line (Toc::load
\* asserts it) and does not decrease, so that the casts of the page numbers
\* keep their values.
TocItem(lines, page_numbers, i) ==
    LET line == lines[i + 1]
        trimmed == trim_start(line)
        level == (str_len(line) - str_len(trimmed)) + 1
        page_number == IF i = 0 THEN 1 ELSE page_numbers[i]
    IN  [id |-> i,
         title |-> trimmed,
         level |-> level % 256,
         page_number |-> page_number,
         page_count |-> page_numbers[i + 1] - page_number,
         children |-> <<>>]

\* The variant that makes an entry of the same level a child.
RECURSIVE build_toc_item_SameLevelNests(_, _)
build_toc_item_SameLevelNests(level, rest) ==
    IF rest = <<>> \/ ~(level <= Head(rest).level)
    THEN [children |-> <<>>, rest |-> rest]
    ELSE LET next == Head(rest)
             below == build_toc_item_SameLevelNests(next.level, Tail(rest))
             more == build_toc_item_SameLevelNests(level, below.rest)
         IN  [children |-> <<[next EXCEPT !.children = below.children]>>
                               \o more.children,
              rest |-> more.rest]

\* Toc::build_toc_item: the entries taken from the front of `rest` while
\* their level is greater than `level`, each with the entries built below
\* it; `rest` is what the peekable iterator still holds on return.
RECURSIVE build_toc_item(_, _)
build_toc_item(level, rest) ==
    IF rest = <<>> \/ ~(level < Head(rest).level)
    THEN [children |-> <<>>, rest |-> rest]
    ELSE LET next == Head(rest)
             below == build_toc_item(next.level, Tail(rest))
             more == build_toc_item(level, below.rest)
         IN  [children |-> <<[next EXCEPT !.children = below.children]>>
                               \o more.children,
              rest |-> more.rest]

\* Toc::ingest: what is left in the iterator when build_toc_item returns is
\* dropped with it.
ingest(lines, page_numbers) ==
    build_toc_item(0, [k \in 1..Len(lines) |->
                           TocItem(lines, page_numbers, k - 1)]).children

\* Toc::load hands the lines and the page numbers to ingest.
TocIngest ==
    /\ toc.pc = "lines"
    /\ toc' = [toc EXCEPT !.pc = "built",
                          !.entries = ingest(toc.lines, toc.page_numbers)]
    /\ UNCHANGED <<sinkVars, stateVars, pc, input, toks, calls, lexVars,
                   finished, loader, markupVars>>

\* The lines of tree.dki: a title after no, one or two spaces, after a tab,
\* and after as many spaces as a u8 cannot count with one added.
MaxLines == 3
TocIndents == {<<>>, <<32>>, <<32, 32>>, <<9>>, [k \in 1..255 |-> 32]}
TocLines == {indent \o TocTitle : indent \in TocIndents}

\* The page numbers of tree.dka: the page after the last page of each entry.
TocPageNumbers(n) == [k \in 1..n |-> 2 * k + 1]

InitToc ==
    /\ InitSink /\ InitState /\ InitHistory /\ InitLexIdle /\ InitMarkupIdle
    /\ pc = "idle"
    /\ input = NoInput
    /\ finished = <<>>
    /\ loader = NoLoader
    /\ \E lines \in SeqsUpTo(TocLines, MaxLines) :
          toc = [pc |-> "lines", lines |-> lines,
                 page_numbers |-> TocPageNumbers(Len(lines)), entries |-> <<>>]

NextToc == TocIngest

SpecToc == InitToc /\ [][NextToc]_vars

\* ------------------------------------------------------------------
\* Views of the document and of the call history
\* ------------------------------------------------------------------

IsChunk(p) == p.kind = "Chunk"

\* The texts of the Chunk pieces of one segment, in piece order.
SegmentText(seg) ==
    Concat([j \in 1..Len(seg.pieces) |->
              IF IsChunk(seg.pieces[j]) THEN seg.pieces[j].text ELSE <<>>])

\* The texts of all Chunk pieces, in segment order and piece order.
DocumentText == Concat([i \in 1..Len(segments) |-> SegmentText(segments[i])])

\* The texts of all chunk calls, in call order.
ChunkCallText ==
    Concat([k \in 1..Len(calls) |->
              IF calls[k].op = "chunk" THEN calls[k].text ELSE <<>>])

\* Every character of a Chunk piece, paired with the style of its segment.
Tagged(text, tag) == [k \in 1..Len(text) |-> <<text[k], tag>>]
SegmentTagged(seg) ==
    Concat([j \in 1..Len(seg.pieces) |->
              IF IsChunk(seg.pieces[j])
              THEN Tagged(seg.pieces[j].text, seg.style) ELSE <<>>])
DocumentTagged == Concat([i \in 1..Len(segments) |-> SegmentTagged(segments[i])])

\* Every character of a chunk call, paired with the SegmentStyle projected
\* from the Style of the call.
CallsTagged ==
    Concat([k \in 1..Len(calls) |->
              IF calls[k].op = "chunk"
              THEN Tagged(calls[k].text, SegmentStyleOf(calls[k].style))
              ELSE <<>>])

\* This step issued exactly the one sink call c.
Issued(c) == calls' = Append(calls, c)
IssuedOne == Len(calls') = Len(calls) + 1 /\ SubSeq(calls', 1, Len(calls)) = calls
TheCall == calls'[Len(calls')]

\* ------------------------------------------------------------------
\* C1: no segment holds two consecutive Chunk pieces of equal ChunkStyle; a
\* chunk call whose ChunkStyle equals that of the last piece of the segment it
\* goes to, that piece being a Chunk, appends its text to that piece and adds
\* no piece.
\* ------------------------------------------------------------------
NoAdjacentEqualChunks ==
    \A i \in 1..Len(segments) :
        \A j \in 1..(Len(segments[i].pieces) - 1) :
            LET p == segments[i].pieces[j]
                q == segments[i].pieces[j + 1]
            IN  ~(IsChunk(p) /\ IsChunk(q) /\ p.style = q.style)

MergesIntoLast ==
    (/\ IssuedOne
     /\ TheCall.op = "chunk"
     /\ Last(segments).style = SegmentStyleOf(TheCall.style)
     /\ Last(segments).pieces # <<>>
     /\ IsChunk(Last(Last(segments).pieces))
     /\ Last(Last(segments).pieces).style = ChunkStyleOf(TheCall.style))
    => segments' =
         [segments EXCEPT ![Len(segments)].pieces[Len(Last(segments).pieces)].text =
             @ \o TheCall.text]

C1_AdjacencyMerge == [](NoAdjacentEqualChunks) /\ [][MergesIntoLast]_vars

\* Two chunk calls of equal style in a row, both with text, ended in one piece.
C1_Witness ==
    /\ Len(calls) = 2
    /\ calls[1].op = "chunk" /\ calls[2].op = "chunk"
    /\ calls[1].style = calls[2].style
    /\ calls[1].text # <<>> /\ calls[2].text # <<>>
    /\ Len(segments) = 1
    /\ Len(segments[1].pieces) = 1
    /\ segments[1].pieces[1].text = calls[1].text \o calls[2].text

\* ------------------------------------------------------------------
\* C2: every Chunk piece lies in a segment whose SegmentStyle is the one
\* projected from the Style of the chunk call that emitted it; a chunk call
\* under a SegmentStyle other than the last segment's starts a new segment
\* that holds just that chunk.
\* ------------------------------------------------------------------
ChunksLieInTheirSegment == DocumentTagged = CallsTagged

StartsNewSegment ==
    (/\ IssuedOne
     /\ TheCall.op = "chunk"
     /\ Last(segments).style # SegmentStyleOf(TheCall.style))
    => segments' =
         Append(segments,
                [style |-> SegmentStyleOf(TheCall.style),
                 pieces |-> <<ChunkPiece(ChunkStyleOf(TheCall.style), TheCall.text)>>])

C2_SegmentBoundary == [](ChunksLieInTheirSegment) /\ [][StartsNewSegment]_vars

\* A chunk under a new SegmentStyle has opened a second segment.
C2_Witness ==
    /\ Len(calls) = 2
    /\ calls[1].op = "chunk" /\ calls[2].op = "chunk"
    /\ calls[1].text # <<>> /\ calls[2].text # <<>>
    /\ SegmentStyleOf(calls[1].style) # SegmentStyleOf(calls[2].style)
    /\ Len(segments) >= 2
    /\ Last(segments).style = SegmentStyleOf(calls[2].style)

\* ------------------------------------------------------------------
\* C3: plain is the concatenation of the texts of the Chunk pieces of the
\* document, and the concatenation of the texts of the chunk calls; link,
\* page_ref and search_word calls leave plain unchanged.
\* ------------------------------------------------------------------
PlainIsDocumentText == plain = DocumentText /\ plain = ChunkCallText

OthersKeepPlain == (IssuedOne /\ TheCall.op # "chunk") => plain' = plain

C3_PlainConservation == [](PlainIsDocumentText) /\ [][OthersKeepPlain]_vars

\* Text before and after a link, the link's content not in plain.
C3_Witness ==
    /\ Len(calls) = 3
    /\ calls[1].op = "chunk" /\ calls[1].text # <<>>
    /\ calls[2].op = "link" /\ calls[2].content # <<>>
    /\ calls[3].op = "chunk" /\ calls[3].text # <<>>
    /\ plain = calls[1].text \o calls[3].text

\* ------------------------------------------------------------------
\* Views of a step of encode_page
\* ------------------------------------------------------------------

\* This step took the token t.
Took(t) == toks' = Append(toks, t)
TookOne == Len(toks') = Len(toks) + 1
TheToken == toks'[Len(toks')]

\* The texts of the chunk calls this step issued, in order.
NewChunkTexts ==
    [k \in 1..(Len(calls') - Len(calls)) |-> calls'[Len(calls) + k].text]
OnlyChunksIssued ==
    \A k \in (Len(calls) + 1)..Len(calls') : calls'[k].op = "chunk"

HyphenKinds == {"HypenAtEol", "InvisibleHyphen", "HyphenCK"}

\* x is d without its trailing whitespace.
IsRightTrimOf(x, d) ==
    \E n \in 0..Len(d) :
        /\ x = SubSeq(d, 1, n)
        /\ \A i \in (n + 1)..Len(d) : IsWhitespace(d[i])
        /\ n = 0 \/ ~IsWhitespace(d[n])

\* x is d without one trailing '-', if it has one.
IsLessOneDash(x, d) ==
    IF d # <<>> /\ Last(d) = 45 THEN x = Front(d) ELSE x = d

\* x is d without all its trailing '-'.
IsLessAllDashes(x, d) ==
    \E n \in 0..Len(d) :
        /\ x = SubSeq(d, 1, n)
        /\ \A i \in (n + 1)..Len(d) : d[i] = 45
        /\ n = 0 \/ d[n] # 45

\* The step wrote the text x, if it is not empty, and then at most a space.
WroteTextThenSpace(x) ==
    /\ OnlyChunksIssued
    /\ \/ NewChunkTexts = (IF x = <<>> THEN <<>> ELSE <<x>>)
       \/ NewChunkTexts = (IF x = <<>> THEN <<>> ELSE <<x>>) \o <<Space>>

AllHyphenFlagsClear ==
    /\ ~add_hyphen_at_eol
    /\ ~add_hyphen_at_eol_separating_ck
    /\ ~add_invisible_hyphen

\* ------------------------------------------------------------------
\* What a token list emits outside a link capture: the typesetter's text
\* rules applied token by token, every write taken as a chunk.
\* ------------------------------------------------------------------
Unlinked == [font |-> 0, incomplete |-> FALSE, hyph |-> FALSE, out |-> <<>>]

UnlinkedStep(st, t) ==
    CASE t.kind = "Word" ->
           [st EXCEPT !.out = @ \o Concat(WordWrites(t, WordText(t.data, st.font, st.hyph),
                                                     st.incomplete)),
                      !.incomplete = FALSE, !.hyph = FALSE]
      [] t.kind \in HyphenKinds -> [st EXCEPT !.hyph = TRUE]
      [] t.kind = "WordIncomplete" ->
           [st EXCEPT !.out = @ \o t.name, !.incomplete = TRUE]
      [] t.kind = "WordRest" ->
           [st EXCEPT !.out = @ \o t.data \o (IF t.space_at_end THEN Space ELSE <<>>)]
      [] t.kind = "Blanks" -> [st EXCEPT !.out = @ \o Concat(Repeat(Space, t.n))]
      [] t.kind = "OneBlank" -> [st EXCEPT !.out = @ \o Space]
      [] t.kind = "SoftCarriageReturn" ->
           [st EXCEPT !.out = @ \o (IF st.hyph THEN <<>> ELSE Space)]
      [] t.kind = "HardCarriageReturn" -> [st EXCEPT !.out = @ \o Newline \o Newline]
      [] t.kind = "HalfLineSpacing" -> [st EXCEPT !.out = @ \o Newline]
      [] t.kind = "Font" -> [st EXCEPT !.font = t.n]
      [] OTHER -> st

RECURSIVE UnlinkedRun(_, _)
UnlinkedRun(st, p) ==
    IF p = <<>> THEN st ELSE UnlinkedRun(UnlinkedStep(st, Head(p)), Tail(p))

\* The text the tokens i+1..n of p would emit as chunks, in the state the
\* typesetter is in after the tokens 1..i.
WouldEmitBetween(p, i, n) ==
    UnlinkedRun([UnlinkedRun(Unlinked, SubSeq(p, 1, i)) EXCEPT !.out = <<>>],
                SubSeq(p, i + 1, n)).out

\* ------------------------------------------------------------------
\* C4: at a UrlEnd that closes a UrlBegin (no UrlBegin, UrlEnd or EndOfPage
\* between the two) encode_page issues exactly one sink call, a link whose
\* url is the name of the UrlBegin and whose content is the text the tokens
\* between the two would have emitted as chunks outside a link.
\* ------------------------------------------------------------------
\* toks[i] is a UrlBegin that the next UrlEnd closes.
OpenUrlBegin(i) ==
    /\ toks[i].kind = "UrlBegin"
    /\ \A k \in (i + 1)..Len(toks) : toks[k].kind \notin {"UrlBegin", "UrlEnd", "EndOfPage"}

UrlEndIssuesTheLink ==
    \A i \in 1..Len(toks) :
        (TookOne /\ TheToken.kind = "UrlEnd" /\ OpenUrlBegin(i))
        => calls' = Append(calls, LinkCall(toks[i].name,
                                           WouldEmitBetween(toks, i, Len(toks))))

C4_LinkCompleteness == [][UrlEndIssuesTheLink]_vars

\* "a- " was captured after a hyphenation hint and delivered by the link.
C4_Witness ==
    /\ toks = <<TokName("UrlBegin", <<117>>), Tok("HypenAtEol"),
                WordTok(TRUE, <<97, 45>>), Tok("UrlEnd")>>
    /\ calls = <<LinkCall(<<117>>, <<97, 45, 32>>)>>
    /\ plain = <<>>

\* ------------------------------------------------------------------
\* C5 (as stated): the chunk emitted after a run of alignment toggles lands
\* in a segment that is centered when a CenteredOn has no CenteredOff after
\* it; else right when an AlignRightOn has no AlignRightOff after it; else
\* unjustified when a NoJustifyOn has no NoJustifyOff after it; else
\* justified.
\* ------------------------------------------------------------------
\* In p a token of kind on was taken and none of kind off after it.
IsOn(p, on, off) ==
    \E i \in 1..Len(p) :
        /\ p[i].kind = on
        /\ \A j \in (i + 1)..Len(p) : p[j].kind # off

AlignmentByFlags(p) ==
    IF IsOn(p, "CenteredOn", "CenteredOff") THEN "Center"
    ELSE IF IsOn(p, "AlignRightOn", "AlignRightOff") THEN "Right"
    ELSE IF IsOn(p, "NoJustifyOn", "NoJustifyOff") THEN "Unjustified"
    ELSE "Justified"

ChunkJustEmitted == toks # <<>> /\ Last(toks).kind = "OneBlank"

LandedAlignment == SegmentStyle_to_proto(Last(segments).style).alignment

C5_AsStated == ChunkJustEmitted => LandedAlignment = AlignmentByFlags(toks)

\* C5 (amended): centered and right share one setting. The segment is
\* centered when the last of the CenteredOn, CenteredOff, AlignRightOn and
\* AlignRightOff tokens taken was CenteredOn, right when it was AlignRightOn;
\* otherwise (none taken, or the last was either Off) unjustified when a
\* NoJustifyOn has no NoJustifyOff after it, else justified.
AlignKinds == {"CenteredOn", "CenteredOff", "AlignRightOn", "AlignRightOff"}

\* The kind of the last token of p whose kind is in kinds, "" when none is.
LastKindOf(p, kinds) ==
    LET at == {i \in 1..Len(p) : p[i].kind \in kinds}
    IN  IF at = {} THEN ""
        ELSE p[CHOOSE i \in at : \A j \in at : j <= i].kind

AlignmentByLastToggle(p) ==
    IF LastKindOf(p, AlignKinds) = "CenteredOn" THEN "Center"
    ELSE IF LastKindOf(p, AlignKinds) = "AlignRightOn" THEN "Right"
    ELSE IF IsOn(p, "NoJustifyOn", "NoJustifyOff") THEN "Unjustified"
    ELSE "Justified"

C5_AlignmentResolution ==
    ChunkJustEmitted => LandedAlignment = AlignmentByLastToggle(toks)

\* Centered was switched on, then right-align on and off again: the chunk is
\* laid out unjustified.
C5_Witness ==
    /\ toks = <<Tok("NoJustifyOn"), Tok("CenteredOn"), Tok("AlignRightOn"),
                Tok("AlignRightOff"), Tok("OneBlank")>>
    /\ LandedAlignment = "Unjustified"
    /\ plain = Space

\* ------------------------------------------------------------------
\* C6 (as stated): a Word that is not suppressed emits its decoded text
\* without trailing whitespace and, iff no hyphen flag is set, without a
\* single trailing '-'; nothing when that is empty; after every Word the
\* three hyphen flags are false.
\* ------------------------------------------------------------------
WordStripsOneDash ==
    (TookOne /\ TheToken.kind = "Word") =>
        /\ AllHyphenFlagsClear'
        /\ ~word_incomplete =>
             \E r \in {SubSeq(decode_string(TheToken.data, font_idx), 1, n) :
                          n \in 0..Len(TheToken.data)} :
               \E x \in {SubSeq(r, 1, n) : n \in 0..Len(r)} :
                 /\ IsRightTrimOf(r, decode_string(TheToken.data, font_idx))
                 /\ IF hyphen THEN x = r ELSE IsLessOneDash(x, r)
                 /\ WroteTextThenSpace(x)

C6_AsStated == [][WordStripsOneDash]_vars

\* C6 (amended): as above, with every trailing '-' removed when no hyphen
\* flag is set.
WordStripsAllDashes ==
    (TookOne /\ TheToken.kind = "Word") =>
        /\ AllHyphenFlagsClear'
        /\ ~word_incomplete =>
             \E r \in {SubSeq(decode_string(TheToken.data, font_idx), 1, n) :
                          n \in 0..Len(TheToken.data)} :
               \E x \in {SubSeq(r, 1, n) : n \in 0..Len(r)} :
                 /\ IsRightTrimOf(r, decode_string(TheToken.data, font_idx))
                 /\ IF hyphen THEN x = r ELSE IsLessAllDashes(x, r)
                 /\ WroteTextThenSpace(x)

C6_HyphenTrimming == [][WordStripsAllDashes]_vars

\* "a--" lost both dashes; "a-" after a hyphenation hint kept its dash.
C6_Witness ==
    /\ toks = <<WordTok(FALSE, <<97, 45, 45>>), Tok("InvisibleHyphen"),
                WordTok(FALSE, <<97, 45>>)>>
    /\ plain = <<97>> \o <<97, 45>> \o Space
    /\ AllHyphenFlagsClear

\* ------------------------------------------------------------------
\* C7 (as stated): of a WordIncomplete directly followed by a Word, only the
\* name of the WordIncomplete reaches the output; the Word writes nothing and
\* leaves word_incomplete false.
\* ------------------------------------------------------------------
IncompleteWritesName ==
    (TookOne /\ TheToken.kind = "WordIncomplete") =>
        OnlyChunksIssued /\ NewChunkTexts = <<TheToken.name>>

AfterIncomplete ==
    /\ TookOne
    /\ TheToken.kind = "Word"
    /\ toks # <<>>
    /\ Last(toks).kind = "WordIncomplete"

PairWritesNameOnly ==
    /\ IncompleteWritesName
    /\ AfterIncomplete => (calls' = calls /\ ~word_incomplete')

C7_AsStated == [][PairWritesNameOnly]_vars

\* C7 (amended): the Word's decoded text is not emitted, but the Word still
\* writes its one space when space_at_end is true or its trimmed text ends
\* in a non-alphanumeric character.
PairWritesNameAndSpace ==
    /\ IncompleteWritesName
    /\ AfterIncomplete =>
         /\ ~word_incomplete'
         /\ OnlyChunksIssued
         /\ LET s == WordText(TheToken.data, font_idx, hyphen)
            IN  NewChunkTexts =
                  IF TheToken.space_at_end \/ (s # <<>> /\ ~IsAlphanumeric(Last(s)))
                  THEN <<Space>> ELSE <<>>

C7_IncompleteSuppression == [][PairWritesNameAndSpace]_vars

\* WordIncomplete "a", then a Word "a" with space_at_end: "a " is the output.
C7_Witness ==
    /\ toks = <<TokName("WordIncomplete", <<97>>), WordTok(TRUE, <<97>>)>>
    /\ plain = <<97, 32>>
    /\ ~word_incomplete

\* ------------------------------------------------------------------
\* C8: after a hyphenation hint, a Word with space_at_end = false whose text
\* ends in '-' and the Word right after it come out joined: the first text
\* with its '-', then the second text, nothing between them.
\* ------------------------------------------------------------------
\* A WordIncomplete was taken in p and no Word after it.
IncompletePending(p) ==
    \E i \in 1..Len(p) :
        /\ p[i].kind = "WordIncomplete"
        /\ \A j \in (i + 1)..Len(p) : p[j].kind # "Word"

IsSuffix(x, s) ==
    Len(x) <= Len(s) /\ SubSeq(s, Len(s) - Len(x) + 1, Len(s)) = x

HyphenatedPairJoined ==
    \A n \in 3..Len(toks) :
        LET h == toks[n - 2]
            w1 == toks[n - 1]
            w2 == toks[n]
            t1 == trim_end(decode_string(w1.data, 0))
            t2 == trim_end_matches(trim_end(decode_string(w2.data, 0)), 45)
        IN  (/\ n = Len(toks)
             /\ h.kind \in HyphenKinds
             /\ w1.kind = "Word" /\ ~w1.space_at_end
             /\ t1 # <<>> /\ Last(t1) = 45
             /\ w2.kind = "Word" /\ t2 # <<>>
             /\ ~IncompletePending(SubSeq(toks, 1, n - 2)))
            => \/ IsSuffix(t1 \o t2, plain)
               \/ IsSuffix(t1 \o t2 \o Space, plain)

C8_HyphenatedPair == HyphenatedPairJoined

\* ------------------------------------------------------------------
\* C9: bytes that are no opcode gather in the pending-unknown buffer; a
\* non-empty buffer becomes exactly one Unknown token right before the next
\* token read; a buffer that is non-empty at the end of the payload becomes
\* a last Unknown token, so the buffer is empty when lex returns and none of
\* its bytes is missing from the tokens.
\* ------------------------------------------------------------------
\* The bytes of the Unknown tokens of ts, in token order.
RawBytes(ts) ==
    Concat([k \in 1..Len(ts) |-> IF ts[k].kind = "Unknown" THEN ts[k].raw ELSE <<>>])

GathersUnknownBytes ==
    (lexpc = "run" /\ ReadToken(data, pos).status = "badmagic")
    => /\ unknown_buf' = Append(unknown_buf, data[pos + 1])
       /\ tokens' = tokens

FlushedBeforeNextToken ==
    (lexpc = "run" /\ ReadToken(data, pos).status = "ok" /\ unknown_buf # <<>>)
    => /\ Len(tokens') = Len(tokens) + 2
       /\ SubSeq(tokens', 1, Len(tokens)) = tokens
       /\ tokens'[Len(tokens) + 1].kind = "Unknown"
       /\ tokens'[Len(tokens) + 1].raw = unknown_buf
       /\ tokens'[Len(tokens) + 2] = ReadToken(data, pos).tok
       /\ unknown_buf' = <<>>

FlushedAtEnd ==
    (lexpc = "run" /\ lexpc' = "done")
    => /\ unknown_buf' = <<>>
       /\ RawBytes(tokens') = RawBytes(tokens) \o unknown_buf

C9_PendingUnknown ==
    /\ [][GathersUnknownBytes /\ FlushedBeforeNextToken /\ FlushedAtEnd]_vars
    /\ [](lexpc = "done" => unknown_buf = <<>>)

\* ------------------------------------------------------------------
\* C10: lexing the raw bytes of an Unknown token that lex produced gives a
\* token sequence with a single Unknown token, of the same raw bytes.
\* ------------------------------------------------------------------
UnknownsOf(ts) == {k \in 1..Len(ts) : ts[k].kind = "Unknown"}

RelexesToItself(u) ==
    \A ts \in lex(u.raw) :
        /\ Cardinality(UnknownsOf(ts)) = 1
        /\ \A k \in UnknownsOf(ts) : ts[k].raw = u.raw

C10_UnknownRoundTrip ==
    lexpc = "done" => \A k \in UnknownsOf(tokens) : RelexesToItself(tokens[k])

\* ------------------------------------------------------------------
\* C11: for every finite payload, unrecognised opcodes and a payload that
\* ends inside a token's operands included, lex terminates and returns its
\* tokens without an error: every turn of the loop consumes at least one
\* payload byte or returns.
\* ------------------------------------------------------------------
ConsumesOrReturns ==
    lexpc = "run" => \/ (lexpc' = "run" /\ pos' > pos /\ pos' <= Len(data))
                     \/ lexpc' = "done"

C11_LexTerminates ==
    /\ [][ConsumesOrReturns]_vars
    /\ [](lexpc # "panic")
    /\ <>(lexpc = "done")

\* A byte that is no opcode, then a Word whose length byte ends the payload:
\* lex has returned.
C11_Witness ==
    /\ data = <<26, 1, 129>>
    /\ lexpc = "done"
    /\ pos \in {1, 3}

\* ------------------------------------------------------------------
\* C12: every payload byte read at an opcode position that is no opcode of
\* the table, 0xFF included, is in the raw of an Unknown token: the raws of
\* the Unknown tokens of a lexed page, in token order, are the unrecognised
\* opcode bytes of the payload in payload order, and no raw is empty.
\* ------------------------------------------------------------------
Unrecognised(b) == b \notin Opcodes \ {OpUnknown}

\* The unrecognised bytes at the opcode positions of d from offset p on; the
\* opcode positions end where the payload ends inside a token.
RECURSIVE UnrecognisedFrom(_, _)
UnrecognisedFrom(d, p) ==
    IF p >= Len(d) THEN <<>>
    ELSE IF Unrecognised(d[p + 1]) THEN <<d[p + 1]>> \o UnrecognisedFrom(d, p + 1)
    ELSE IF ReadToken(d, p).status = "ok" THEN UnrecognisedFrom(d, ReadToken(d, p).next)
    ELSE <<>>

C12_UnknownBytesRecorded ==
    lexpc = "done" =>
        /\ RawBytes(tokens) = UnrecognisedFrom(data, 0)
        /\ \A k \in UnknownsOf(tokens) : tokens[k].raw # <<>>

\* ------------------------------------------------------------------
\* C13: a link, page_ref or search_word call changes neither the number of
\* segments nor the style of any segment: it appends exactly one piece to
\* the last segment and leaves every earlier piece unchanged.
\* ------------------------------------------------------------------
PieceOfCall(c) ==
    CASE c.op = "link" -> LinkPiece(c.url, c.content)
      [] c.op = "pageref" -> PageRefPiece(c.page)
      [] c.op = "searchword" -> SearchWordPiece(c.word)

AppendsToLastSegment ==
    (IssuedOne /\ TheCall.op \in {"link", "pageref", "searchword"}) =>
        /\ Len(segments') = Len(segments)
        /\ \A i \in 1..Len(segments) : segments'[i].style = segments[i].style
        /\ \A i \in 1..(Len(segments) - 1) : segments'[i] = segments[i]
        /\ Last(segments').pieces = Append(Last(segments).pieces, PieceOfCall(TheCall))

C13_NonChunkFrame == [][AppendsToLastSegment]_vars

\* A link after a centered chunk lies in the centered segment, behind the
\* chunk.
C13_Witness ==
    /\ Len(calls) = 2
    /\ calls[1].op = "chunk" /\ calls[1].text # <<>>
    /\ calls[1].style.alignment = Some("center")
    /\ calls[2].op = "link"
    /\ Len(segments) = 2
    /\ segments[2].style.alignment = Some("center")
    /\ Len(segments[2].pieces) = 2
    /\ segments[2].pieces[2] = PieceOfCall(calls[2])

\* ------------------------------------------------------------------
\* C14: in every reachable state of the structured sink, from construction
\* on, the document has at least one segment, so the last segment that
\* chunk, link, page_ref and search_word access exists.
\* ------------------------------------------------------------------
C14_NeverEmpty == Len(segments) >= 1

\* Three calls that are no chunk, straight after construction: all in the
\* one segment the sink was built with.
C14_Witness ==
    /\ Len(calls) = 3
    /\ \A k \in 1..3 : calls[k].op # "chunk"
    /\ Len(segments) = 1
    /\ Len(segments[1].pieces) = 3

\* ------------------------------------------------------------------
\* C15: no two consecutive segments of the document have the same
\* SegmentStyle, the SegmentStyle being the left padding with the resolved
\* alignment (justified, unjustified, centered, right).
\* ------------------------------------------------------------------
C15_SegmentsMaximal ==
    \A i \in 1..(Len(segments) - 1) :
        SegmentStyle_to_proto(segments[i].style)
            # SegmentStyle_to_proto(segments[i + 1].style)

\* ------------------------------------------------------------------
\* C16: within one page the sink calls happen in token order: the calls of
\* a token come after the calls of every earlier token. The text of the
\* tokens inside a link capture is delivered by the link call at the UrlEnd,
\* and a page_ref caused by a token inside the capture is issued at that
\* token, before the link call.
\* ------------------------------------------------------------------
\* The document is what the sink makes of the calls so far, in their order.
DocumentIsCallsInOrder == Sink = Feed(ForFlutter_new, calls)

NewCalls == SubSeq(calls', Len(calls) + 1, Len(calls'))

CallsFollowEarlierCalls ==
    TookOne => /\ Len(calls') >= Len(calls)
               /\ SubSeq(calls', 1, Len(calls)) = calls

\* The sink calls the token t causes while a link is being captured.
CapturedCalls(t) ==
    CASE t.kind = "AutoLink" -> <<PageRefCall(t.n)>>
      [] t.kind = "PageLink" /\ t.page_number # 0 -> <<PageRefCall(t.page_number)>>
      [] OTHER -> <<>>

CaptureDefersText ==
    (TookOne /\ queued_link # None) =>
        IF TheToken.kind = "UrlEnd"
        THEN NewCalls = <<LinkCall(queued_link[1].url, queued_link[1].content)>>
        ELSE NewCalls = CapturedCalls(TheToken)

C16_TokenOrder ==
    /\ [](DocumentIsCallsInOrder)
    /\ [][CallsFollowEarlierCalls /\ CaptureDefersText]_vars

\* The page_ref of an AutoLink inside a capture came before the link that
\* delivers the captured word.
C16_Witness ==
    /\ toks = <<TokName("UrlBegin", <<117>>), WordTok(FALSE, <<97>>),
                TokN("AutoLink", 7), Tok("UrlEnd")>>
    /\ calls = <<PageRefCall(7), LinkCall(<<117>>, <<97>>)>>

\* ------------------------------------------------------------------
\* C17: pages are independent. Every encode_page call starts from the
\* default style, font index 0, word_incomplete false, all hyphen flags
\* false and no queued link, on a fresh sink, so the document of a page is
\* a function of the tokens of that page alone, whatever pages came before.
\* ------------------------------------------------------------------
StartsFresh == (finished' # finished /\ pc' = "run") => (InitState /\ InitSink)'

SamePageSameRow ==
    \A i, j \in 1..Len(finished) :
        finished[i].tokens = finished[j].tokens => finished[i] = finished[j]

C17_PagesIndependent == [](SamePageSameRow) /\ [][StartsFresh]_vars

\* The same page before and after a page that ends centered, with a pending
\* hyphen: both times the word lost its dash and is justified.
C17_Witness ==
    /\ Len(finished) = 3
    /\ finished[1].tokens = <<WordTok(FALSE, <<97, 45>>)>>
    /\ finished[2].tokens = <<Tok("CenteredOn"), Tok("HypenAtEol")>>
    /\ finished[3].tokens = finished[1].tokens
    /\ finished[3].plain = <<97>>
    /\ finished[3].content[1].style.alignment = "Justified"

\* ------------------------------------------------------------------
\* Views of the markup output
\* ------------------------------------------------------------------
\* The output after the heading line, and the write! calls after it.
MarkupBody ==
    SubSeq(writer, Len(Typst_heading(TocLevel, TocTitle, TocPage)) + 1, Len(writer))
MarkupWrites == Tail(written)
NewWrites == SubSeq(written', Len(written) + 1, Len(written'))

RECURSIVE CountOf_Char(_, _)
CountOf_Char(t, c) ==
    IF t = <<>> THEN 0
    ELSE (IF Head(t) = c THEN 1 ELSE 0) + CountOf_Char(Tail(t), c)

IsOpening(w) == Len(w) >= 2 /\ Head(w) = 35 /\ Last(w) = 91
IsClosing(w) == w = CloseWrapper
OpenedValue(w) == SubSeq(w, 2, Len(w) - 1)

\* The values of the wrappers that the writes ws leave open, the outermost
\* first, on top of the open wrappers st; "unbalanced" when a closing has no
\* wrapper to close.
RECURSIVE OpenAfter(_, _)
OpenAfter(st, ws) ==
    IF ws = <<>> \/ st = "unbalanced" THEN st
    ELSE IF IsOpening(Head(ws)) THEN OpenAfter(Append(st, OpenedValue(Head(ws))), Tail(ws))
    ELSE IF IsClosing(Head(ws))
         THEN OpenAfter(IF st = <<>> THEN "unbalanced" ELSE Front(st), Tail(ws))
    ELSE OpenAfter(st, Tail(ws))

StackValues == [i \in 1..Len(current_functions) |-> current_functions[i].val]

\* ------------------------------------------------------------------
\* C18 (as stated): after any sequence of push_state and pop_state the
\* number of '[' minus the number of ']' written by them equals the depth of
\* the wrapper stack, and the wrappers open in the output, outermost first,
\* are the stack entries in stack order; popping a key closes every wrapper
\* above it and the target, removes the target and reopens the wrappers that
\* were above it in their order.
\* ------------------------------------------------------------------
BracketsMatchDepth ==
    CountOf_Char(MarkupBody, 91) - CountOf_Char(MarkupBody, 93) = Len(current_functions)

OpenWrappersAreStack == OpenAfter(<<>>, MarkupWrites) = StackValues

PopClosesAndReopens ==
    \A i \in 1..Len(current_functions) :
        (mpc' = "run" /\ current_functions' = RemoveAt(current_functions, i))
        => NewWrites = Repeat(CloseWrapper, (Len(current_functions) - i) + 1)
                       \o [k \in 1..(Len(current_functions) - i) |->
                             OpenWrapper(current_functions[i + k].val)]

C18_AsStated ==
    /\ [](BracketsMatchDepth /\ OpenWrappersAreStack)
    /\ [][PopClosesAndReopens]_vars

\* C18 (amended): the same with the brackets counted per wrapper, one '['
\* for each "#val[" written and one ']' for each closing: the characters of
\* a value are not counted, since the value of a link wrapper is the URL as
\* it stands and may hold brackets of its own.
RECURSIVE CountOpenings(_)
CountOpenings(ws) ==
    IF ws = <<>> THEN 0
    ELSE (IF IsOpening(Head(ws)) THEN 1 ELSE 0) + CountOpenings(Tail(ws))

RECURSIVE CountClosings(_)
CountClosings(ws) ==
    IF ws = <<>> THEN 0
    ELSE (IF IsClosing(Head(ws)) THEN 1 ELSE 0) + CountClosings(Tail(ws))

WrappersMatchDepth ==
    CountOpenings(MarkupWrites) - CountClosings(MarkupWrites) = Len(current_functions)

C18_WellNested ==
    /\ [](WrappersMatchDepth /\ OpenWrappersAreStack)
    /\ [][PopClosesAndReopens]_vars

\* emph was popped from under strong: both closed, strong reopened.
C18_Witness ==
    /\ toks = <<Tok("ItalicsOn"), Tok("BoldOn"), Tok("ItalicsOff")>>
    /\ StackValues = <<Typst_strong>>
    /\ MarkupWrites = <<OpenWrapper(Typst_emph), OpenWrapper(Typst_strong),
                        CloseWrapper, CloseWrapper, OpenWrapper(Typst_strong)>>

\* ------------------------------------------------------------------
\* C19: in the markup sink, when page processing ends, at the first
\* EndOfPage or when the tokens run out, exactly one ']' is written for each
\* wrapper still on the stack, the stack becomes empty, and the page-break
\* marker is written after them as the last output of the page.
\* ------------------------------------------------------------------
PageEndFlushes ==
    (mpc = "run" /\ mpc' = "done") =>
        /\ NewWrites = Repeat(CloseWrapper, Len(current_functions)) \o <<Typst_pagebreak>>
        /\ writer' = writer \o Concat(NewWrites)
        /\ current_functions' = <<>>

EndsAtFirstEndOfPage ==
    (mpc = "run" /\ TookOne /\ TheToken.kind = "EndOfPage") => mpc' = "done"

NothingAfterPageBreak ==
    mpc = "done" =>
        /\ current_functions = <<>>
        /\ Last(written) = Typst_pagebreak
        /\ \A k \in 1..Len(toks) : toks[k].kind = "EndOfPage" => k = Len(toks)

C19_PageEndFlush ==
    /\ [](NothingAfterPageBreak)
    /\ [][PageEndFlushes /\ EndsAtFirstEndOfPage]_vars

\* emph and strong were open at the EndOfPage: two closings, then the page
\* break.
C19_Witness ==
    /\ toks = <<Tok("ItalicsOn"), Tok("BoldOn"), Tok("EndOfPage")>>
    /\ mpc = "done"
    /\ current_functions = <<>>
    /\ MarkupWrites = <<OpenWrapper(Typst_emph), OpenWrapper(Typst_strong),
                        CloseWrapper, CloseWrapper, Typst_pagebreak>>

\* ------------------------------------------------------------------
\* Views of a call of Pages::load
\* ------------------------------------------------------------------

Requested == loader.page_number..(loader.page_number + loader.count - 1)

LoadEnded == loader.pc \in {"ok", "err", "panic"}

\* The page table of the file, when the header can be read.
TableOf(file) == Pages_open(file).page_table

\* A requested index is outside 1..=length of the page table.
IndexOutOfRange ==
    /\ Pages_open(loader.file).ok
    /\ \E n \in Requested : n \notin 1..Len(TableOf(loader.file))

\* The offset of a requested page is negative or past the end of the file.
OffsetPastEnd ==
    \E n \in Requested \cap 1..Len(TableOf(loader.file)) :
        \/ TableOf(loader.file)[n] < 0
        \/ TableOf(loader.file)[n] >= Len(loader.file)

\* The record of page p lies in the file: its header and its payload.
RecordInFile(p) ==
    LET address == loader.page_table[p.number]
        header == IF loader.has_magic THEN 6 ELSE 2
    IN  /\ p.number \in 1..Len(loader.page_table)
        /\ address >= 0
        /\ address + header + Len(p.data) <= Len(loader.file)
        /\ p.data = BytesAt(loader.file, address + header, Len(p.data))

\* C20: Pages::load ends with an error value and no pages when a requested
\* index is outside 1..=length of the page table (0 included), when an offset
\* lies past the end of the file, or when the file ends before a header or a
\* payload is complete; every failure is an error value; otherwise it
\* returns count pages numbered page_number, page_number + 1, ... in order.
C20_LoadContract ==
    LoadEnded =>
        /\ loader.pc \in {"ok", "err"}
        /\ (IndexOutOfRange \/ OffsetPastEnd) => loader.pc = "err"
        /\ loader.pc = "err" => loader.pages = <<>>
        /\ loader.pc = "ok" =>
              /\ Len(loader.pages) = loader.count
              /\ \A k \in 1..Len(loader.pages) :
                    /\ loader.pages[k].number = loader.page_number + k - 1
                    /\ RecordInFile(loader.pages[k])

\* ------------------------------------------------------------------
\* Tokens without effect, presets, completion
\* ------------------------------------------------------------------

\* The step leaves the typesetter as it was and the loop goes on.
NoEffect ==
    /\ calls' = calls
    /\ UNCHANGED <<sinkVars, stateVars>>
    /\ pc' = "run"

\* C21: ListItemStart, like a token with an empty arm, makes no sink call,
\* changes no typesetter state, and the loop goes on to the next token.
ListItemIsNoOp ==
    (TookOne /\ TheToken.kind \in IgnoredKinds \cup {"ListItemStart"}) => NoEffect

C21_ListItemNoOp == [][ListItemIsNoOp]_vars

\* The style FontPreset(n) leaves behind, field by field.
PresetChanges(n) ==
    /\ current_style'.color_gray = IF n = 0 THEN FALSE ELSE current_style.color_gray
    /\ current_style'.emphasis =
          IF n = 0 THEN FALSE ELSE IF n = 6 THEN TRUE ELSE current_style.emphasis
    /\ current_style'.strong =
          IF n = 0 THEN FALSE ELSE IF n = 4 THEN TRUE ELSE current_style.strong
    /\ current_style'.size =
          IF n = 1 THEN Some(133) ELSE IF n = 2 THEN Some(122)
          ELSE IF n = 3 THEN Some(111) ELSE IF n \in {4, 5, 6} THEN None
          ELSE current_style.size
    /\ \A f \in DOMAIN current_style \ {"color_gray", "emphasis", "strong", "size"} :
          current_style'[f] = current_style[f]

\* C26: FontPreset(n) changes gray, emphasis, strong and size as the table
\* says (0 keeps size, 1..3 set 133/122/111, 4..6 clear size, others change
\* nothing), leaves every other style field, font_idx and the flags as they
\* were, and makes no sink call.
PresetStep ==
    (TookOne /\ TheToken.kind = "FontPreset") =>
        /\ PresetChanges(TheToken.n)
        /\ DOMAIN current_style' = DOMAIN current_style
        /\ calls' = calls
        /\ UNCHANGED <<sinkVars, queued_link, font_idx, word_incomplete,
                       had_carriage_return, hyphVars, metaVars>>
        /\ pc' = "run"

C26_FontPreset == [][PresetStep]_vars

\* A size 50 set by FontSize, gray, italics: then FontPreset(0) has kept the
\* size and cleared the rest.
C26_Witness ==
    /\ Len(toks) = 3
    /\ toks[1] = TokN("FontSize", 50)
    /\ toks[2] = Tok("ItalicsOn")
    /\ toks[3] = TokN("FontPreset", 0)
    /\ current_style.size = Some(50)
    /\ ~current_style.emphasis

\* C30: encode_page never aborts, whatever the tokens and their operands.
C30_CompletesNormally == pc # "panic"

\* ------------------------------------------------------------------
\* The length byte of WordRest
\* ------------------------------------------------------------------

\* At the cursor stands a WordRest whose length byte b is followed by at
\* least (b AND 0x7F) bytes.
WordRestAhead ==
    /\ lexpc = "run"
    /\ pos + 2 <= Len(data)
    /\ data[pos + 1] = OpWordRest
    /\ pos + 2 + (data[pos + 2] % 128) <= Len(data)

\* C24: a WordRest is read like a Word: space_at_end is the high bit of the
\* length byte b, the text is the (b AND 0x7F) bytes after it, and the next
\* token starts right after them.
WordRestReadLikeWord ==
    WordRestAhead =>
        LET b == data[pos + 2]
        IN  /\ pos' = pos + 2 + (b % 128)
            /\ tokens' # <<>>
            /\ Last(tokens') =
                  WordRestTok(b >= 128, Windows1252String(BytesAt(data, pos + 2, b % 128)))

C24_WordRestLength == [][WordRestReadLikeWord]_vars

\* ------------------------------------------------------------------
\* Link capture
\* ------------------------------------------------------------------

\* The tokens p leave a capture in progress: the last UrlBegin or UrlEnd
\* among them is a UrlBegin.
RECURSIVE CaptureOpenAfter(_)
CaptureOpenAfter(p) ==
    IF p = <<>> THEN FALSE
    ELSE IF Last(p).kind = "UrlBegin" THEN TRUE
    ELSE IF Last(p).kind = "UrlEnd" THEN FALSE
    ELSE CaptureOpenAfter(Front(p))

CaptureIsQueuedLink == CaptureOpenAfter(toks) <=> queued_link # None

\* What the token t writes in the state the typesetter is in.
WritesNow(t) ==
    UnlinkedStep([font |-> font_idx, incomplete |-> word_incomplete,
                  hyph |-> add_hyphen_at_eol \/ add_hyphen_at_eol_separating_ck
                           \/ add_invisible_hyphen,
                  out |-> <<>>], t).out

\* A token inside a capture makes no chunk call, and what it writes is
\* appended to the accumulator.
CaptureTakesText ==
    (TookOne /\ CaptureOpenAfter(toks)) =>
        /\ \A k \in 1..Len(NewCalls) : NewCalls[k].op # "chunk"
        /\ TheToken.kind \notin {"UrlBegin", "UrlEnd"} =>
              /\ queued_link' # None
              /\ queued_link'[1].url = queued_link[1].url
              /\ queued_link'[1].content = queued_link[1].content \o WritesNow(TheToken)

UrlEndClosesCapture ==
    (TookOne /\ TheToken.kind = "UrlEnd") =>
        IF CaptureOpenAfter(toks)
        THEN /\ Len(NewCalls) = 1
             /\ NewCalls[1].op = "link"
             /\ queued_link' = None
        ELSE /\ calls' = calls
             /\ UNCHANGED <<sinkVars, stateVars>>

\* C22: in a capture (after a UrlBegin and before the next UrlEnd) no chunk
\* call is made and every text emission goes to the accumulator; UrlEnd in
\* a capture issues exactly one link call and ends the capture; UrlEnd
\* outside a capture issues no call and changes no state.
C22_LinkCapture ==
    /\ [](CaptureIsQueuedLink)
    /\ [][CaptureTakesText /\ UrlEndClosesCapture]_vars

\* A word was captured and delivered by the first UrlEnd; the second UrlEnd
\* found no capture and did nothing.
C22_Witness ==
    /\ toks = <<TokName("UrlBegin", <<118>>), WordTok(TRUE, <<97, 45>>),
                Tok("UrlEnd"), Tok("UrlEnd")>>
    /\ calls = <<LinkCall(<<118>>, <<97, 32>>)>>
    /\ queued_link = None

\* ------------------------------------------------------------------
\* The space after a Word
\* ------------------------------------------------------------------

\* The positions of the spaces among the texts this step wrote.
NewSpaces == {k \in 1..Len(NewChunkTexts) : NewChunkTexts[k] = Space}

\* C23: after the text step of a Word, emitted or suppressed, exactly one
\* space is written iff space_at_end is true or the trimmed text ends in a
\* non-alphanumeric character (an empty trimmed text has no such
\* character), and the space is the last thing the Word writes.
WordSpaceRule ==
    (TookOne /\ TheToken.kind = "Word") =>
        LET s == WordText(TheToken.data, font_idx, hyphen)
            due == TheToken.space_at_end \/ (s # <<>> /\ ~IsAlphanumeric(Last(s)))
        IN  /\ OnlyChunksIssued
            /\ NewSpaces = IF due THEN {Len(NewChunkTexts)} ELSE {}
            /\ due => Len(NewChunkTexts) >= 1
            /\ Len(NewChunkTexts) <= 2

C23_WordSpace == [][WordSpaceRule]_vars

\* A suppressed Word "a-" under a hyphenation hint, space_at_end false: its
\* text is not written, its space is.
C23_Witness ==
    /\ toks = <<Tok("HyphenCK"), TokName("WordIncomplete", <<97>>),
                WordTok(FALSE, <<97, 45>>)>>
    /\ Len(calls) = 2
    /\ calls[2].text = Space
    /\ plain = <<97, 32>>

\* ------------------------------------------------------------------
\* The end of the page
\* ------------------------------------------------------------------

\* The tokens the loop has processed hold an EndOfPage only as their last
\* one, and then the loop has been left.
EndOfPageIsLast ==
    \A k \in 1..Len(toks) :
        toks[k].kind = "EndOfPage" => (k = Len(toks) /\ pc # "run")

\* EndOfPage itself makes no sink call and changes no state.
EndOfPageStops ==
    (TookOne /\ TheToken.kind = "EndOfPage") =>
        /\ calls' = calls
        /\ UNCHANGED <<sinkVars, stateVars>>
        /\ pc' = "done"

\* Once the loop is left nothing is processed any more.
DoneStays ==
    pc = "done" => (calls' = calls /\ toks' = toks /\ UNCHANGED <<sinkVars, stateVars>>)

\* C25: encode_page stops at the first EndOfPage: no token after it is
\* processed, so none causes a sink call or a state change.
C25_StopsAtEndOfPage ==
    /\ [](EndOfPageIsLast)
    /\ [][EndOfPageStops /\ DoneStays]_vars

\* EndOfPage came inside a capture, with room for one more token: the
\* captured word was never delivered and the capture is still open.
C25_Witness ==
    /\ toks = <<TokName("UrlBegin", <<117>>), WordTok(FALSE, <<97>>), Tok("EndOfPage")>>
    /\ Len(toks) < input.limit
    /\ pc = "done"
    /\ calls = <<>>
    /\ queued_link = Some([content |-> <<97>>, url |-> <<117>>])

\* ------------------------------------------------------------------
\* Soft line breaks and the hyphen flags
\* ------------------------------------------------------------------

\* C27: SoftCarriageReturn writes exactly one space iff none of the three
\* hyphen flags is set, and leaves the flags as they are; a flag that is set
\* stays set across every token other than Word, and the next Word clears
\* all three.
SoftBreakSpace ==
    (TookOne /\ TheToken.kind = "SoftCarriageReturn") =>
        /\ OnlyChunksIssued
        /\ NewChunkTexts = IF AllHyphenFlagsClear THEN <<Space>> ELSE <<>>
        /\ UNCHANGED hyphVars

FlagsLastUntilWord ==
    TookOne =>
        IF TheToken.kind = "Word" THEN AllHyphenFlagsClear'
        ELSE /\ add_hyphen_at_eol => add_hyphen_at_eol'
             /\ add_hyphen_at_eol_separating_ck => add_hyphen_at_eol_separating_ck'
             /\ add_invisible_hyphen => add_invisible_hyphen'

C27_SoftBreak == [][SoftBreakSpace /\ FlagsLastUntilWord]_vars

\* A hint, a soft break that wrote nothing, and the Word that used the hint
\* (its dash is kept) and cleared it.
C27_Witness ==
    /\ toks = <<Tok("HyphenCK"), Tok("SoftCarriageReturn"), WordTok(FALSE, <<97, 45>>)>>
    /\ plain = <<97, 45, 32>>
    /\ AllHyphenFlagsClear

\* ------------------------------------------------------------------
\* word_incomplete
\* ------------------------------------------------------------------

\* C28 (as stated): word_incomplete is true when, and only when, the token
\* processed immediately before was WordIncomplete.
C28_AsStated ==
    word_incomplete <=> (toks # <<>> /\ Last(toks).kind = "WordIncomplete")

\* A Word with a non-empty trimmed text writes it iff no WordIncomplete is
\* pending.
WordSuppressedIffPending ==
    (TookOne /\ TheToken.kind = "Word") =>
        LET s == WordText(TheToken.data, font_idx, add_hyphen_at_eol
                            \/ add_hyphen_at_eol_separating_ck \/ add_invisible_hyphen)
        IN  s # <<>> =>
              ((NewChunkTexts # <<>> /\ NewChunkTexts[1] = s) <=> ~IncompletePending(toks))

\* C28 (amended): word_incomplete is true exactly when a WordIncomplete has
\* been processed and no Word after it, whatever other tokens came between;
\* the text of a Word is suppressed exactly then.
C28_IncompleteUntilWord ==
    /\ [](word_incomplete <=> IncompletePending(toks))
    /\ [][WordSuppressedIffPending]_vars

\* A soft break stood between the WordIncomplete and the Word, and the
\* Word's text was suppressed all the same.
C28_Witness ==
    /\ toks = <<TokName("WordIncomplete", <<97>>), Tok("SoftCarriageReturn"),
                WordTok(FALSE, <<97>>)>>
    /\ plain = <<97, 32>>
    /\ ~word_incomplete

\* ------------------------------------------------------------------
\* The payload length of a page
\* ------------------------------------------------------------------

\* The page_size field of page n in the file.
PageSizeOf(n) ==
    ReadLe(loader.file, SeekStart(loader.file, loader.page_table[n]), 2)

\* load_page is about to load a page whose page_size can be read.
SizedPageAhead ==
    /\ loader.pc = "pages"
    /\ loader.i < loader.page_number + loader.count
    /\ loader.i \in 1..Len(loader.page_table)
    /\ PageSizeOf(loader.i).ok

\* C29: the payload is page_size bytes with the magic header and
\* page_size - 2 bytes, with atom_count = word_count = 0, without it; without
\* the magic header a page_size below 2 ends the load with an error.
PayloadLength ==
    (SizedPageAhead /\ loader' # loader) =>
        LET page_size == PageSizeOf(loader.i).value
        IN  IF ~loader.has_magic /\ page_size < 2
            THEN loader'.pc = "err"
            ELSE /\ loader'.pc \in {"pages", "err"}
                 /\ loader'.pc = "pages" =>
                      LET p == Last(loader'.pages)
                      IN  /\ Len(p.data) = IF loader.has_magic THEN page_size
                                           ELSE page_size - 2
                          /\ ~loader.has_magic => (p.atom_count = 0 /\ p.word_count = 0)

C29_PayloadLength == [][PayloadLength]_vars

\* ------------------------------------------------------------------
\* Conservation of the emitted text
\* ------------------------------------------------------------------

\* The texts of the chunk calls and the contents of the link calls, in call
\* order.
DeliveredText ==
    Concat([k \in 1..Len(calls) |->
              IF calls[k].op = "chunk" THEN calls[k].text
              ELSE IF calls[k].op = "link" THEN calls[k].content
              ELSE <<>>])

\* Every text the tokens processed have emitted, in token order.
EmittedText == UnlinkedRun(Unlinked, toks).out

\* C31: when encode_page has returned, the chunk texts and link contents in
\* call order are the texts emitted by the tokens in token order, also after
\* a UrlBegin inside a capture and when the page ends inside a capture.
C31_NoTextLost == pc = "done" => DeliveredText = EmittedText

\* ------------------------------------------------------------------
\* Empty texts
\* ------------------------------------------------------------------

NoEmptyChunkPiece ==
    \A i \in 1..Len(segments) : \A j \in 1..Len(segments[i].pieces) :
        IsChunk(segments[i].pieces[j]) => segments[i].pieces[j].text # <<>>

\* A step that opens a segment has issued a chunk with a text.
SegmentsOpenForText ==
    Len(segments') > Len(segments) =>
        (NewCalls # <<>> /\ Last(NewCalls).op = "chunk" /\ Last(NewCalls).text # <<>>)

\* C32: no Chunk piece of the document has an empty text and no segment is
\* opened for an empty text, whatever the tokens: WordRest with an empty
\* text, WordIncomplete with an empty name and Blanks(0) included.
C32_NoEmptyChunk == [](NoEmptyChunkPiece) /\ [][SegmentsOpenForText]_vars

\* ------------------------------------------------------------------
\* The inline style in both sinks
\* ------------------------------------------------------------------

\* The current style of encode_page after one more token: the arms that
\* assign emphasis, strong and gray.
encode_style(style, t) ==
    CASE t.kind = "ItalicsOn" -> [style EXCEPT !.emphasis = TRUE]
      [] t.kind = "ItalicsOff" -> [style EXCEPT !.emphasis = FALSE]
      [] t.kind = "BoldOn" -> [style EXCEPT !.strong = TRUE]
      [] t.kind = "BoldOff" -> [style EXCEPT !.strong = FALSE]
      [] t.kind = "FontPreset" -> FontPresetStyle(style, t.n)
      [] t.kind = "Color" -> [style EXCEPT !.color_gray = (t.n = 1)]
      [] OTHER -> style

\* The current style of encode_page after the tokens p.
RECURSIVE StyleAfter(_)
StyleAfter(p) ==
    IF p = <<>> THEN DefaultStyle ELSE encode_style(StyleAfter(Front(p)), Last(p))

\* The wrapper stack holds a wrapper with the value val.
HasWrapper(val) == \E i \in 1..Len(current_functions) : current_functions[i].val = val

\* C33: after every token of the page the markup sink holds an emphasis
\* wrapper iff the typesetter's style has emphasis, a strong wrapper iff it
\* has strong, a gray wrapper iff it has gray; after FontPreset(0) none.
C33_SameInlineStyle ==
    mpc = "run" =>
        /\ HasWrapper(Typst_emph) <=> StyleAfter(toks).emphasis
        /\ HasWrapper(Typst_strong) <=> StyleAfter(toks).strong
        /\ HasWrapper(Typst_gray) <=> StyleAfter(toks).color_gray

\* ------------------------------------------------------------------
\* The TOC tree (Toc::ingest)
\* ------------------------------------------------------------------

\* The entries of a list of entries and of everything below them, each
\* before its children, the children in their order.
RECURSIVE PreOrder(_)
PreOrder(entries) ==
    IF entries = <<>> THEN <<>>
    ELSE <<Head(entries)>> \o PreOrder(Head(entries).children)
                           \o PreOrder(Tail(entries))

Ids(entries) == [k \in 1..Len(entries) |-> entries[k].id]
IdSet(entries) == {entries[k].id : k \in 1..Len(entries)}
TocEntries == PreOrder(toc.entries)
TocEntrySet == {TocEntries[k] : k \in 1..Len(TocEntries)}
ChildSet(e) == {e.children[k] : k \in 1..Len(e.children)}

\* The spaces a line starts with, and the bytes of whitespace it starts with.
LeadingSpaces(line) ==
    Cardinality({i \in 1..Len(line) : \A j \in 1..i : line[j] = 32})
LeadingWhitespaceBytes(line) ==
    LET k == Cardinality({i \in 1..Len(line) : \A j \in 1..i : IsWhitespace(line[j])})
    IN  str_len(SubSeq(line, 1, k))

\* The level of each line as the sentence gives it, and as a u8 holds it.
StatedLevels == [k \in 1..Len(toc.lines) |-> LeadingSpaces(toc.lines[k]) + 1]
ByteLevels == [k \in 1..Len(toc.lines) |->
                  (LeadingWhitespaceBytes(toc.lines[k]) + 1) % 256]

\* The lines before the first line whose level is 0 (all of them if none is).
LinesKept ==
    Cardinality({i \in 1..Len(toc.lines) : \A j \in 1..i : ByteLevels[j] # 0})

\* The ids of the entries that follow entry i, among the first m, up to the
\* next one whose level is not greater than that of i.
FollowingRun(levels, i, m) ==
    {j \in (i + 1)..(m - 1) : \A k \in (i + 1)..j : levels[k + 1] > levels[i + 1]}

\* Of the run that follows entry i, the entries in no other run of that run.
TopOfRun(levels, i, m) ==
    {j \in FollowingRun(levels, i, m) :
        \A k \in FollowingRun(levels, i, m) : j \notin FollowingRun(levels, k, m)}

ChildrenAreDeeper ==
    \A e \in TocEntrySet : \A c \in ChildSet(e) : c.level > e.level

\* C34, as stated: the tree built from n lines holds the entries 0..n-1 in
\* line order, every entry has level = leading spaces + 1, every child is
\* deeper than its parent, and the children of an entry are the entries that
\* follow it up to the next entry whose level is not greater.
C34_AsStated ==
    toc.pc = "built" =>
        /\ Ids(TocEntries) = [k \in 1..Len(toc.lines) |-> k - 1]
        /\ \A e \in TocEntrySet : e.level = StatedLevels[e.id + 1]
        /\ ChildrenAreDeeper
        /\ \A e \in TocEntrySet :
              IdSet(e.children) = FollowingRun(StatedLevels, e.id, Len(toc.lines))

\* C34: the tree holds, in line order, the entries of the lines before the
\* first line whose level is 0; the level of an entry is the number of
\* leading whitespace bytes of its line plus one, as a u8, and its title the
\* rest of the line; every child is deeper than its parent; the entries
\* below an entry (its children and theirs) are the entries that follow it
\* up to the next entry whose level is not greater, and its children are
\* those of them that are below no other of them.
C34_TocTree ==
    toc.pc = "built" =>
        /\ Ids(TocEntries) = [k \in 1..LinesKept |-> k - 1]
        /\ \A e \in TocEntrySet :
              /\ e.level = ByteLevels[e.id + 1]
              /\ e.title = trim_start(toc.lines[e.id + 1])
              /\ IdSet(PreOrder(e.children)) = FollowingRun(ByteLevels, e.id, LinesKept)
              /\ IdSet(e.children) = TopOfRun(ByteLevels, e.id, LinesKept)
              /\ \A k \in 1..(Len(e.children) - 1) :
                    e.children[k].id < e.children[k + 1].id
        /\ ChildrenAreDeeper

\* A tree of three levels has been built: an entry with a child that has a
\* child of its own.
C34_Witness ==
    /\ toc.pc = "built"
    /\ \E e \in TocEntrySet : \E c \in ChildSet(e) : c.children # <<>>

\* ------------------------------------------------------------------
\* The wrapper stack (push_state, pop_state)
\* ------------------------------------------------------------------

KeyCount(cf, key) == Cardinality({i \in 1..Len(cf) : cf[i].key = key})

KeysUnique ==
    \A i, j \in 1..Len(current_functions) :
        current_functions[i].key = current_functions[j].key => i = j

\* The keys write_page calls push_state with for a token, and the keys it
\* calls pop_state with and does not push afterwards.
PushedKeys(t) ==
    CASE t.kind = "ItalicsOn" -> {"emph"}
      [] t.kind = "BoldOn" -> {"strong"}
      [] t.kind = "Color" /\ t.n = 1 -> {"colour"}
      [] t.kind = "FontPreset" /\ t.n \in {1, 2, 3, 5} -> {"size"}
      [] t.kind = "FontPreset" /\ t.n = 4 -> {"size", "strong"}
      [] t.kind = "FontPreset" /\ t.n = 6 -> {"size", "emph"}
      [] OTHER -> {}
PoppedKeys(t) ==
    CASE t.kind = "ItalicsOff" -> {"emph"}
      [] t.kind = "BoldOff" -> {"strong"}
      [] t.kind = "Color" /\ t.n # 1 -> {"colour"}
      [] t.kind = "FontPreset" /\ t.n = 0 -> {"color", "strong", "italic"}
      [] OTHER -> {}

PushLeavesOne ==
    TookOne => \A key \in PushedKeys(TheToken) : KeyCount(current_functions', key) = 1
PopLeavesNone ==
    TookOne => \A key \in PoppedKeys(TheToken) : KeyCount(current_functions', key) = 0

\* C35: the wrapper stack never holds two entries with the same key; after
\* push_state(key, ..) the key occurs once, and after pop_state(key) no entry
\* has the key.
C35_UniqueKeys == [](KeysUnique) /\ [][PushLeavesOne /\ PopLeavesNone]_vars

\* emph was pushed while an emph entry lay under a strong entry: the old
\* entry is gone and the new one is on top.
C35_Witness ==
    /\ toks = <<Tok("ItalicsOn"), Tok("BoldOn"), Tok("ItalicsOn")>>
    /\ [k \in 1..Len(current_functions) |-> current_functions[k].key]
          = <<"strong", "emph">>

====
